---- MODULE Spec2Model ----
(***************************************************************************)
(* winter2: the value <-> directory codec (src/src/db_fmt.rs) and the      *)
(* single-writer mutation pipeline (src/src/app/mod.rs, Backend::work).    *)
(*                                                                         *)
(* Strings, file names and file contents are sequences of bytes (0..255),  *)
(* so that base64, path separators, UTF-8 validity and JSON text are       *)
(* computed and not assumed.                                               *)
(***************************************************************************)
EXTENDS Integers, Sequences, FiniteSets, TLC

VARIABLES
  fs,       \* the file system: the directory that holds the store path
  uuid,     \* number of Uuid::new_v4() draws so far (each draw is fresh)
  ord,      \* the order in which read_dir lists entries (an arrangement number)
  cop,      \* codec calls: the last step, "none" | "enc" | "dec" | "ext"
  cencs,    \* codec calls: [v, ok] of each value_to_fs since the store path was last absent
  cclean,   \* codec calls: nothing but value_to_fs wrote below the store path since then
  cerr,     \* codec calls: when the last step was fs_to_value, its result ("ok" or the error variant)
  cval,     \* codec calls: when the last step was fs_to_value, the value it returned
  cpre,     \* codec calls: when the last step was value_to_fs, the store as it was before
  nops,     \* codec calls: number of value_to_fs calls and outside edits so far
  mutations,  \* the request channel (send_mutations / recv_mutations): mutations sent, not yet received
  new_state,  \* the snapshot channel (send_db / recv_db): snapshots sent, not yet taken by the Gui
  queued,     \* the in-flight counter shared by Gui and Backend
  db,         \* Backend.db: the state from mk_app, then the last snapshot sent
  gui_db,     \* Gui.db: the state from mk_app, then the last snapshot taken
  pc,         \* Backend::work: "recv" | "load" | "apply" | "persist" | "persisting" | "compare" | "returned"
  batch,      \* Backend::work: the received mutations not yet applied
  new_db,     \* Backend::work: <<>> or <<the tree of the cycle>>
  ret,        \* Backend::work: <<>> while it runs, <<call, error>> once it has returned
  loaded,     \* history: <<>> or <<the tree fs_to_value gave the cycle>>
  nsent,      \* history: number of snapshots the cycle has sent
  enq,        \* history: every mutation sent into the request channel, in order
  applied,    \* history: every mutation that ran and returned Ok, in order
  snapshots,  \* history: the state mk_app handed to the Gui, then every snapshot sent, in order
  enc,        \* the trees of the value_to_fs calls in progress on blocking threads
  open,       \* the Gui lives: it holds a sender of mutations and the receiver of snapshots
  tasks,      \* tasks spawned by the Gui to send one mutation each, not yet run
  submitted,  \* history: every mutation handed to a spawned task, in the order of the calls
  jobs,       \* refresh jobs that are downloading: [n, url, read_articles]
  njobs,      \* history: number of refresh jobs started
  toasts,     \* history: every (level, url) sent into the toast channel, in order
  edits       \* history: number of writes to the store by other programs

\* the file system and the codec's sources of nondeterminism
svars == <<fs, uuid, ord>>
\* the record of codec calls
hvars == <<cop, cencs, cclean, cerr, cval, cpre, nops>>
\* the pipeline
pvars == <<mutations, new_state, queued, db, gui_db, pc, batch, new_db, ret,
           loaded, nsent, enq, applied, snapshots>>
\* what lies around Backend::work: blocking threads, the Gui's tasks and
\* jobs, other programs
xvars == <<enc, open, tasks, submitted, jobs, njobs, toasts, edits>>
vars == <<svars, hvars, pvars, xvars>>

(***************************************************************************)
(* Bytes                                                                   *)
(***************************************************************************)
Byte == 0..255

\* "elem_", "key_", ".type", "array", "dict" as bytes
ELEM_PREFIX == <<101, 108, 101, 109, 95>>
KEY_PREFIX  == <<107, 101, 121, 95>>
TYPE_NAME   == <<46, 116, 121, 112, 101>>
ARRAY_TAG   == <<97, 114, 114, 97, 121>>
DICT_TAG    == <<100, 105, 99, 116>>

\* '/', '_', '='
SLASH == 47
UNDERSCORE == 95
PAD == 61

StartsWith(s, p) == Len(s) >= Len(p) /\ SubSeq(s, 1, Len(p)) = p

Drop(s, n) == SubSeq(s, n + 1, Len(s))

\* str::find(c): 0-based index of the first occurrence, or -1
RECURSIVE FindFrom(_, _, _)
FindFrom(s, c, i) ==
  IF i > Len(s) THEN -1
  ELSE IF s[i] = c THEN i - 1
  ELSE FindFrom(s, c, i + 1)

Find(s, c) == FindFrom(s, c, 1)

\* byte-wise lexicographic order, the order of String keys in a BTreeMap
RECURSIVE LexLess(_, _)
LexLess(a, b) ==
  IF Len(b) = 0 THEN FALSE
  ELSE IF Len(a) = 0 THEN TRUE
  ELSE IF a[1] < b[1] THEN TRUE
  ELSE IF a[1] > b[1] THEN FALSE
  ELSE LexLess(Tail(a), Tail(b))

RECURSIVE SortedKeys(_)
SortedKeys(S) ==
  IF S = {} THEN <<>>
  ELSE LET m == CHOOSE x \in S : \A y \in S \ {x} : LexLess(x, y)
       IN <<m>> \o SortedKeys(S \ {m})

(***************************************************************************)
(* UTF-8 validity (String::from_utf8, OsStr::to_str)                       *)
(***************************************************************************)
IsCont(b) == b >= 128 /\ b <= 191

\* length of the well-formed UTF-8 sequence starting at s[i], or 0
Utf8SeqLen(s, i) ==
  LET b == s[i]
      has(n) == i + n <= Len(s)
  IN IF b <= 127 THEN 1
     ELSE IF b >= 194 /\ b <= 223
       THEN IF has(1) /\ IsCont(s[i + 1]) THEN 2 ELSE 0
     ELSE IF b >= 224 /\ b <= 239
       THEN IF has(2) /\ IsCont(s[i + 1]) /\ IsCont(s[i + 2])
                /\ (b = 224 => s[i + 1] >= 160)
                /\ (b = 237 => s[i + 1] <= 159)
            THEN 3 ELSE 0
     ELSE IF b >= 240 /\ b <= 244
       THEN IF has(3) /\ IsCont(s[i + 1]) /\ IsCont(s[i + 2]) /\ IsCont(s[i + 3])
                /\ (b = 240 => s[i + 1] >= 144)
                /\ (b = 244 => s[i + 1] <= 143)
            THEN 4 ELSE 0
     ELSE 0

RECURSIVE IsUtf8From(_, _)
IsUtf8From(s, i) ==
  IF i > Len(s) THEN TRUE
  ELSE LET n == Utf8SeqLen(s, i)
       IN IF n = 0 THEN FALSE ELSE IsUtf8From(s, i + n)

IsUtf8(s) == IsUtf8From(s, 1)

\* OsStr::to_string_lossy: every ill-formed byte becomes U+FFFD (EF BF BD)
RECURSIVE LossyFrom(_, _)
LossyFrom(s, i) ==
  IF i > Len(s) THEN <<>>
  ELSE LET n == Utf8SeqLen(s, i)
       IN IF n = 0 THEN <<239, 191, 189>> \o LossyFrom(s, i + 1)
          ELSE SubSeq(s, i, i + n - 1) \o LossyFrom(s, i + n)

ToStringLossy(s) == LossyFrom(s, 1)

(***************************************************************************)
(* base64: engine::general_purpose::STANDARD (alphabet A-Za-z0-9+/, padded,*)
(* decoding requires canonical padding and zero trailing bits)             *)
(***************************************************************************)
B64Char(i) ==
  IF i < 26 THEN 65 + i
  ELSE IF i < 52 THEN 97 + (i - 26)
  ELSE IF i < 62 THEN 48 + (i - 52)
  ELSE IF i = 62 THEN 43
  ELSE SLASH

\* the 6-bit value of a symbol, or -1
B64Val(c) ==
  IF c >= 65 /\ c <= 90 THEN c - 65
  ELSE IF c >= 97 /\ c <= 122 THEN c - 97 + 26
  ELSE IF c >= 48 /\ c <= 57 THEN c - 48 + 52
  ELSE IF c = 43 THEN 62
  ELSE IF c = SLASH THEN 63
  ELSE -1

RECURSIVE B64Encode(_)
B64Encode(b) ==
  IF Len(b) = 0 THEN <<>>
  ELSE IF Len(b) = 1
    THEN <<B64Char(b[1] \div 4), B64Char((b[1] % 4) * 16), PAD, PAD>>
  ELSE IF Len(b) = 2
    THEN <<B64Char(b[1] \div 4),
           B64Char((b[1] % 4) * 16 + b[2] \div 16),
           B64Char((b[2] % 16) * 4), PAD>>
  ELSE <<B64Char(b[1] \div 4),
         B64Char((b[1] % 4) * 16 + b[2] \div 16),
         B64Char((b[2] % 16) * 4 + b[3] \div 64),
         B64Char(b[3] % 64)>> \o B64Encode(Drop(b, 3))

\* [ok, b]: ok = FALSE is base64::DecodeError
RECURSIVE B64Decode(_)
B64Decode(s) ==
  IF Len(s) = 0 THEN [ok |-> TRUE, b |-> <<>>]
  ELSE IF Len(s) < 4 THEN [ok |-> FALSE, b |-> <<>>]
  ELSE
    LET v1 == B64Val(s[1])
        v2 == B64Val(s[2])
        v3 == B64Val(s[3])
        v4 == B64Val(s[4])
        last == Len(s) = 4
    IN IF v1 < 0 \/ v2 < 0 THEN [ok |-> FALSE, b |-> <<>>]
       ELSE IF last /\ s[3] = PAD /\ s[4] = PAD
         THEN IF v2 % 16 = 0
              THEN [ok |-> TRUE, b |-> <<v1 * 4 + v2 \div 16>>]
              ELSE [ok |-> FALSE, b |-> <<>>]
       ELSE IF v3 < 0 THEN [ok |-> FALSE, b |-> <<>>]
       ELSE IF last /\ s[4] = PAD
         THEN IF v3 % 4 = 0
              THEN [ok |-> TRUE,
                    b |-> <<v1 * 4 + v2 \div 16, (v2 % 16) * 16 + v3 \div 4>>]
              ELSE [ok |-> FALSE, b |-> <<>>]
       ELSE IF v4 < 0 THEN [ok |-> FALSE, b |-> <<>>]
       ELSE LET r == B64Decode(Drop(s, 4))
            IN IF r.ok
               THEN [ok |-> TRUE,
                     b |-> <<v1 * 4 + v2 \div 16,
                             (v2 % 16) * 16 + v3 \div 4,
                             (v3 % 4) * 64 + v4>> \o r.b]
               ELSE [ok |-> FALSE, b |-> <<>>]

(***************************************************************************)
(* serde_json::Value                                                       *)
(*   Null, Bool, Number, String, Array, Object (a map: keys are unique).   *)
(* A Number is an integer (f = FALSE) or a float (f = TRUE) written as     *)
(* sign s, integer part v and fraction digits d (trailing zeros dropped);  *)
(* exponent notation is outside the modelled number grammar.  The payload  *)
(* field has a different name in each variant.                             *)
(***************************************************************************)
Null == [t |-> "null"]
Bool(b) == [t |-> "bool", b |-> b]
Int64(n) == [t |-> "num", s |-> IF n < 0 THEN -1 ELSE 1,
             v |-> IF n < 0 THEN -n ELSE n, f |-> FALSE, d |-> <<>>]
Float(n, frac) == [t |-> "num", s |-> 1, v |-> n, f |-> TRUE, d |-> frac]
Str(s) == [t |-> "str", s |-> s]
Arr(a) == [t |-> "arr", a |-> a]
Obj(o) == [t |-> "obj", o |-> o]

EmptyMap == <<>>
MapPut(m, k, x) == [j \in (DOMAIN m) \cup {k} |-> IF j = k THEN x ELSE m[j]]
MapDel(m, k) == [j \in (DOMAIN m) \ {k} |-> m[j]]

\* array.iter().all(|el| matches!(el, Value::Number(_)))
AllNumbers(a) == \A i \in 1..Len(a) : a[i].t = "num"

(***************************************************************************)
(* serde_json::to_writer: the compact JSON text of a value                 *)
(***************************************************************************)
RECURSIVE DecDigits(_)
DecDigits(n) ==
  IF n < 10 THEN <<48 + n>> ELSE DecDigits(n \div 10) \o <<48 + (n % 10)>>

HexDigit(n) == IF n < 10 THEN 48 + n ELSE 97 + (n - 10)

\* format_escaped_str_contents: '"', '\\' and the control characters
EscapeByte(b) ==
  IF b = 34 THEN <<92, 34>>
  ELSE IF b = 92 THEN <<92, 92>>
  ELSE IF b = 8 THEN <<92, 98>>
  ELSE IF b = 9 THEN <<92, 116>>
  ELSE IF b = 10 THEN <<92, 110>>
  ELSE IF b = 12 THEN <<92, 102>>
  ELSE IF b = 13 THEN <<92, 114>>
  ELSE IF b < 32 THEN <<92, 117, 48, 48, HexDigit(b \div 16), HexDigit(b % 16)>>
  ELSE <<b>>

RECURSIVE EscapeStr(_)
EscapeStr(s) ==
  IF Len(s) = 0 THEN <<>> ELSE EscapeByte(s[1]) \o EscapeStr(Tail(s))

JsonNumber(n) ==
  (IF n.s < 0 THEN <<45>> ELSE <<>>) \o DecDigits(n.v)
  \o (IF n.f THEN <<46>> \o (IF Len(n.d) = 0 THEN <<48>> ELSE n.d) ELSE <<>>)

RECURSIVE ToJson(_)
RECURSIVE JsonItems(_)
RECURSIVE JsonMembers(_, _)
ToJson(x) ==
  IF x.t = "null" THEN <<110, 117, 108, 108>>
  ELSE IF x.t = "bool"
    THEN IF x.b THEN <<116, 114, 117, 101>> ELSE <<102, 97, 108, 115, 101>>
  ELSE IF x.t = "num" THEN JsonNumber(x)
  ELSE IF x.t = "str" THEN <<34>> \o EscapeStr(x.s) \o <<34>>
  ELSE IF x.t = "arr" THEN <<91>> \o JsonItems(x.a) \o <<93>>
  ELSE <<123>> \o JsonMembers(x.o, SortedKeys(DOMAIN x.o)) \o <<125>>

JsonItems(a) ==
  IF Len(a) = 0 THEN <<>>
  ELSE IF Len(a) = 1 THEN ToJson(a[1])
  ELSE ToJson(a[1]) \o <<44>> \o JsonItems(Tail(a))

JsonMembers(m, ks) ==
  IF Len(ks) = 0 THEN <<>>
  ELSE <<34>> \o EscapeStr(ks[1]) \o <<34, 58>> \o ToJson(m[ks[1]])
       \o (IF Len(ks) = 1 THEN <<>> ELSE <<44>> \o JsonMembers(m, Tail(ks)))

(***************************************************************************)
(* serde_json::from_reader: parse exactly one JSON value, then only        *)
(* whitespace up to the end of the input.  Results are [ok, v, i]: i is    *)
(* the position after what was consumed.                                   *)
(***************************************************************************)
IsWs(b) == b \in {32, 9, 10, 13}
IsDigit(b) == b >= 48 /\ b <= 57

ParseFail == [ok |-> FALSE, v |-> Null, i |-> 0]

RECURSIVE SkipWs(_, _)
SkipWs(s, i) == IF i <= Len(s) /\ IsWs(s[i]) THEN SkipWs(s, i + 1) ELSE i

RECURSIVE DigitsEnd(_, _)
DigitsEnd(s, i) == IF i <= Len(s) /\ IsDigit(s[i]) THEN DigitsEnd(s, i + 1) ELSE i

RECURSIVE DigitsVal(_, _)
DigitsVal(ds, acc) ==
  IF Len(ds) = 0 THEN acc ELSE DigitsVal(Tail(ds), acc * 10 + (ds[1] - 48))

RECURSIVE StripZeros(_)
StripZeros(ds) ==
  IF Len(ds) > 0 /\ ds[Len(ds)] = 48 THEN StripZeros(SubSeq(ds, 1, Len(ds) - 1)) ELSE ds

\* a number starting at s[i] ('-' or a digit)
ParseNumber(s, i) ==
  LET neg == s[i] = 45
      j == IF neg THEN i + 1 ELSE i
      k == DigitsEnd(s, j)
      ip == SubSeq(s, j, k - 1)
  IN IF k = j THEN ParseFail
     ELSE IF Len(ip) > 1 /\ ip[1] = 48 THEN ParseFail
     ELSE IF k <= Len(s) /\ s[k] \in {101, 69} THEN ParseFail
     ELSE IF k <= Len(s) /\ s[k] = 46
       THEN LET m == DigitsEnd(s, k + 1)
                fr == StripZeros(SubSeq(s, k + 1, m - 1))
            IN IF m = k + 1 THEN ParseFail
               ELSE IF m <= Len(s) /\ s[m] \in {101, 69} THEN ParseFail
               ELSE [ok |-> TRUE, i |-> m,
                     v |-> [t |-> "num",
                            s |-> IF neg /\ (DigitsVal(ip, 0) > 0 \/ Len(fr) > 0)
                                  THEN -1 ELSE 1,
                            v |-> DigitsVal(ip, 0), f |-> TRUE, d |-> fr]]
     ELSE [ok |-> TRUE, i |-> k,
           v |-> [t |-> "num",
                  s |-> IF neg /\ DigitsVal(ip, 0) > 0 THEN -1 ELSE 1,
                  v |-> DigitsVal(ip, 0),
                  f |-> (neg /\ DigitsVal(ip, 0) = 0), d |-> <<>>]]

HexVal(b) ==
  IF IsDigit(b) THEN b - 48
  ELSE IF b >= 97 /\ b <= 102 THEN b - 87
  ELSE IF b >= 65 /\ b <= 70 THEN b - 55
  ELSE -1

\* UTF-8 of a code point below 0x10000
Utf8Of(c) ==
  IF c < 128 THEN <<c>>
  ELSE IF c < 2048 THEN <<192 + (c \div 64), 128 + (c % 64)>>
  ELSE <<224 + (c \div 4096), 128 + ((c \div 64) % 64), 128 + (c % 64)>>

\* the contents of a string whose opening quote is at s[i - 1]; [ok, b, i]
RECURSIVE ParseStrBody(_, _, _)
ParseStrBody(s, i, acc) ==
  IF i > Len(s) THEN [ok |-> FALSE, b |-> <<>>, i |-> 0]
  ELSE IF s[i] = 34
    THEN IF IsUtf8(acc) THEN [ok |-> TRUE, b |-> acc, i |-> i + 1]
         ELSE [ok |-> FALSE, b |-> <<>>, i |-> 0]
  ELSE IF s[i] < 32 THEN [ok |-> FALSE, b |-> <<>>, i |-> 0]
  ELSE IF s[i] = 92
    THEN IF i + 1 > Len(s) THEN [ok |-> FALSE, b |-> <<>>, i |-> 0]
         ELSE LET e == s[i + 1]
              IN IF e \in {34, 92, 47} THEN ParseStrBody(s, i + 2, acc \o <<e>>)
                 ELSE IF e = 98 THEN ParseStrBody(s, i + 2, acc \o <<8>>)
                 ELSE IF e = 116 THEN ParseStrBody(s, i + 2, acc \o <<9>>)
                 ELSE IF e = 110 THEN ParseStrBody(s, i + 2, acc \o <<10>>)
                 ELSE IF e = 102 THEN ParseStrBody(s, i + 2, acc \o <<12>>)
                 ELSE IF e = 114 THEN ParseStrBody(s, i + 2, acc \o <<13>>)
                 ELSE IF e = 117 /\ i + 5 <= Len(s)
                         /\ \A j \in 2..5 : HexVal(s[i + j]) >= 0
                   THEN LET c == HexVal(s[i + 2]) * 4096 + HexVal(s[i + 3]) * 256
                                 + HexVal(s[i + 4]) * 16 + HexVal(s[i + 5])
                        IN IF c >= 55296 /\ c <= 57343
                           THEN [ok |-> FALSE, b |-> <<>>, i |-> 0]
                           ELSE ParseStrBody(s, i + 6, acc \o Utf8Of(c))
                 ELSE [ok |-> FALSE, b |-> <<>>, i |-> 0]
  ELSE ParseStrBody(s, i + 1, acc \o <<s[i]>>)

RECURSIVE ParseValue(_, _)
RECURSIVE ParseItems(_, _, _)
RECURSIVE ParseMembers(_, _, _)
ParseValue(s, i0) ==
  LET i == SkipWs(s, i0)
  IN IF i > Len(s) THEN ParseFail
     ELSE IF s[i] = 110
       THEN IF i + 3 <= Len(s) /\ SubSeq(s, i, i + 3) = <<110, 117, 108, 108>>
            THEN [ok |-> TRUE, v |-> Null, i |-> i + 4] ELSE ParseFail
     ELSE IF s[i] = 116
       THEN IF i + 3 <= Len(s) /\ SubSeq(s, i, i + 3) = <<116, 114, 117, 101>>
            THEN [ok |-> TRUE, v |-> Bool(TRUE), i |-> i + 4] ELSE ParseFail
     ELSE IF s[i] = 102
       THEN IF i + 4 <= Len(s) /\ SubSeq(s, i, i + 4) = <<102, 97, 108, 115, 101>>
            THEN [ok |-> TRUE, v |-> Bool(FALSE), i |-> i + 5] ELSE ParseFail
     ELSE IF s[i] = 45 \/ IsDigit(s[i]) THEN ParseNumber(s, i)
     ELSE IF s[i] = 34
       THEN LET r == ParseStrBody(s, i + 1, <<>>)
            IN IF r.ok THEN [ok |-> TRUE, v |-> Str(r.b), i |-> r.i] ELSE ParseFail
     ELSE IF s[i] = 91
       THEN LET j == SkipWs(s, i + 1)
            IN IF j <= Len(s) /\ s[j] = 93
               THEN [ok |-> TRUE, v |-> Arr(<<>>), i |-> j + 1]
               ELSE ParseItems(s, j, <<>>)
     ELSE IF s[i] = 123
       THEN LET j == SkipWs(s, i + 1)
            IN IF j <= Len(s) /\ s[j] = 125
               THEN [ok |-> TRUE, v |-> Obj(EmptyMap), i |-> j + 1]
               ELSE ParseMembers(s, j, EmptyMap)
     ELSE ParseFail

\* the elements of an array from s[i] on, up to and including ']'
ParseItems(s, i, acc) ==
  LET r == ParseValue(s, i)
  IN IF ~r.ok THEN ParseFail
     ELSE LET j == SkipWs(s, r.i)
          IN IF j > Len(s) THEN ParseFail
             ELSE IF s[j] = 93
               THEN [ok |-> TRUE, v |-> Arr(Append(acc, r.v)), i |-> j + 1]
             ELSE IF s[j] = 44 THEN ParseItems(s, j + 1, Append(acc, r.v))
             ELSE ParseFail

\* the members of an object from s[i] on, up to and including '}'
ParseMembers(s, i0, acc) ==
  LET i == SkipWs(s, i0)
  IN IF i > Len(s) \/ s[i] # 34 THEN ParseFail
     ELSE LET k == ParseStrBody(s, i + 1, <<>>)
          IN IF ~k.ok THEN ParseFail
             ELSE LET c == SkipWs(s, k.i)
                  IN IF c > Len(s) \/ s[c] # 58 THEN ParseFail
                     ELSE LET r == ParseValue(s, c + 1)
                          IN IF ~r.ok THEN ParseFail
                             ELSE LET j == SkipWs(s, r.i)
                                      m == MapPut(acc, k.b, r.v)
                                  IN IF j > Len(s) THEN ParseFail
                                     ELSE IF s[j] = 125
                                       THEN [ok |-> TRUE, v |-> Obj(m), i |-> j + 1]
                                     ELSE IF s[j] = 44 THEN ParseMembers(s, j + 1, m)
                                     ELSE ParseFail

\* [ok, v]: ok = FALSE is serde_json::Error
FromJson(s) ==
  LET r == ParseValue(s, 1)
  IN IF r.ok /\ SkipWs(s, r.i) > Len(s)
     THEN [ok |-> TRUE, v |-> r.v]
     ELSE [ok |-> FALSE, v |-> Null]

(***************************************************************************)
(* The file system.  A node is a regular file [k, c, r] (contents c,       *)
(* r = FALSE when it cannot be opened for reading), a directory [k, e]     *)
(* with its entries e = <<[n |-> name, x |-> node], ...>> (names unique),  *)
(* or NoNode.  A path is a sequence of components; an empty component      *)
(* comes from "//" or a trailing '/'.                                      *)
(***************************************************************************)
NoNode == [k |-> "none"]
File(c) == [k |-> "file", c |-> c, r |-> TRUE]
Dir(e) == [k |-> "dir", e |-> e]

\* the components of a name pushed onto a path: split at '/'
RECURSIVE SplitSlash(_, _)
SplitSlash(s, cur) ==
  IF Len(s) = 0 THEN <<cur>>
  ELSE IF s[1] = SLASH THEN <<cur>> \o SplitSlash(Tail(s), <<>>)
  ELSE SplitSlash(Tail(s), Append(cur, s[1]))

\* Path::join(name), for a name that does not start with '/'
PathJoin(p, name) == p \o SplitSlash(name, <<>>)

RECURSIVE NonEmpty(_)
NonEmpty(p) ==
  IF Len(p) = 0 THEN <<>>
  ELSE IF Len(p[1]) = 0 THEN NonEmpty(Tail(p))
  ELSE <<p[1]>> \o NonEmpty(Tail(p))

TrailingSlash(p) == Len(p) > 0 /\ Len(p[Len(p)]) = 0

\* index of the entry called name, or 0
RECURSIVE EntryIndex(_, _, _)
EntryIndex(e, name, i) ==
  IF i > Len(e) THEN 0
  ELSE IF e[i].n = name THEN i
  ELSE EntryIndex(e, name, i + 1)

\* the node at components cs below node, NoNode when there is none
RECURSIVE Walk(_, _)
Walk(node, cs) ==
  IF Len(cs) = 0 THEN node
  ELSE IF node.k # "dir" THEN NoNode
  ELSE LET i == EntryIndex(node.e, cs[1], 1)
       IN IF i = 0 THEN NoNode ELSE Walk(node.e[i].x, Tail(cs))

\* what the path names: a trailing '/' only names a directory
Lookup(f, p) ==
  LET n == Walk(f, NonEmpty(p))
  IN IF TrailingSlash(p) /\ n.k # "dir" THEN NoNode ELSE n

\* Path::is_dir
IsDir(f, p) == Lookup(f, p).k = "dir"

\* node with the entry at components cs (whose parent exists) set to x
RECURSIVE SetAt(_, _, _)
SetAt(node, cs, x) ==
  IF Len(cs) = 0 THEN x
  ELSE LET i == EntryIndex(node.e, cs[1], 1)
       IN IF i = 0
          THEN Dir(Append(node.e, [n |-> cs[1], x |-> SetAt(Dir(<<>>), Tail(cs), x)]))
          ELSE Dir([node.e EXCEPT ![i].x = SetAt(node.e[i].x, Tail(cs), x)])

\* node without the entry at components cs (which exists)
RECURSIVE DelAt(_, _)
DelAt(node, cs) ==
  LET i == EntryIndex(node.e, cs[1], 1)
  IN IF Len(cs) = 1
     THEN Dir(SubSeq(node.e, 1, i - 1) \o SubSeq(node.e, i + 1, Len(node.e)))
     ELSE Dir([node.e EXCEPT ![i].x = DelAt(node.e[i].x, Tail(cs))])

\* std::fs::create_dir_all: [ok, fs]
RECURSIVE MkdirP(_, _, _)
MkdirP(f, cs, n) ==
  IF n > Len(cs) THEN [ok |-> TRUE, fs |-> f]
  ELSE LET at == Walk(f, SubSeq(cs, 1, n))
       IN IF at.k = "dir" THEN MkdirP(f, cs, n + 1)
          ELSE IF at.k = "file" THEN [ok |-> FALSE, fs |-> f]
          ELSE MkdirP(SetAt(f, SubSeq(cs, 1, n), Dir(<<>>)), cs, n + 1)

CreateDirAll(f, p) == MkdirP(f, NonEmpty(p), 1)

\* create(true).truncate(true).write(true).open(path) and writing c: [ok, fs]
WriteFile(f, p, c) ==
  LET cs == NonEmpty(p)
      parent == Walk(f, SubSeq(cs, 1, Len(cs) - 1))
      at == Walk(f, cs)
  IN IF Len(cs) = 0 \/ TrailingSlash(p) \/ parent.k # "dir" \/ at.k = "dir"
     THEN [ok |-> FALSE, fs |-> f]
     ELSE IF at.k = "file"
       THEN [ok |-> TRUE, fs |-> SetAt(f, cs, [at EXCEPT !.c = c])]
     ELSE [ok |-> TRUE, fs |-> SetAt(f, cs, File(c))]

\* std::fs::remove_file: [ok, fs]
RemoveFile(f, p) ==
  IF Lookup(f, p).k = "file" /\ ~TrailingSlash(p)
  THEN [ok |-> TRUE, fs |-> DelAt(f, NonEmpty(p))]
  ELSE [ok |-> FALSE, fs |-> f]

\* std::fs::remove_dir_all: [ok, fs]
RemoveDirAll(f, p) ==
  IF Lookup(f, p).k = "dir" /\ Len(NonEmpty(p)) > 0
  THEN [ok |-> TRUE, fs |-> DelAt(f, NonEmpty(p))]
  ELSE [ok |-> FALSE, fs |-> f]

\* std::fs::read_to_string: [ok, s]
ReadToString(f, p) ==
  LET n == Lookup(f, p)
  IN IF n.k = "file" /\ n.r /\ IsUtf8(n.c)
     THEN [ok |-> TRUE, s |-> n.c]
     ELSE [ok |-> FALSE, s |-> <<>>]

\* the o-th arrangement of a sequence (o \div n! selects nothing further)
RECURSIVE Permute(_, _)
Permute(s, o) ==
  IF Len(s) = 0 THEN <<>>
  ELSE LET i == (o % Len(s)) + 1
       IN <<s[i]>> \o Permute(SubSeq(s, 1, i - 1) \o SubSeq(s, i + 1, Len(s)),
                              o \div Len(s))

\* std::fs::read_dir(path).flatten() and file_name(): the entry names of a
\* directory, in the order o in which this listing happens to yield them
ReadDirNames(f, p, o) ==
  LET e == Lookup(f, p).e
  IN Permute([i \in 1..Len(e) |-> e[i].n], o)

(***************************************************************************)
(* value_to_fs_inner (db_fmt.rs 21-83).  Results are [ok, fs, u]: ok =     *)
(* FALSE is Err(ValueToFsError::IO), fs is the file system as the call     *)
(* leaves it (also when it fails part-way), u the Uuid draws so far.       *)
(***************************************************************************)
RECURSIVE HexDigits(_)
HexDigits(n) ==
  IF n < 16 THEN <<HexDigit(n)>> ELSE HexDigits(n \div 16) \o <<HexDigit(n % 16)>>

\* the text of the u-th Uuid::new_v4(): distinct per draw, no '_' and no '/'
UuidText(u) == HexDigits(u)

\* format!("elem_{n}_{id}"), n 0-based
ElemName(n, u) == ELEM_PREFIX \o DecDigits(n) \o <<UNDERSCORE>> \o UuidText(u)

\* format!("key_{}", STANDARD.encode(name))
KeyName(name) == KEY_PREFIX \o B64Encode(name)

\* the try_for_each over the paths to remove: stops at the first error
RECURSIVE RemoveEach(_, _, _)
RemoveEach(f, p, names) ==
  IF Len(names) = 0 THEN [ok |-> TRUE, fs |-> f]
  ELSE LET path == PathJoin(p, names[1])
           r == IF IsDir(f, path) THEN RemoveDirAll(f, path) ELSE RemoveFile(f, path)
       IN IF r.ok THEN RemoveEach(r.fs, p, Tail(names)) ELSE r

\* a filter that lets every entry of the directory through
Matches_All(name, prefix) == TRUE

\* .filter(|name| name.starts_with("elem_")), .filter(|name| name.starts_with("key_"))
Matches(name, prefix) == StartsWith(name, prefix)

\* read_dir(path)?.flatten().map(to_string_lossy).filter(starts_with(prefix))
\*   .map(|name| path.join(name)).try_for_each(remove)
RemovePrefixed(f, p, prefix, o) ==
  LET HasPrefix(s) == Matches(s, prefix)
      raw == ReadDirNames(f, p, o)
      names == [i \in 1..Len(raw) |-> ToStringLossy(raw[i])]
  IN RemoveEach(f, p, SelectSeq(names, HasPrefix))

RECURSIVE ValueToFsInner(_, _, _, _, _)
RECURSIVE EncodeItems(_, _, _, _, _, _)
RECURSIVE EncodeMembers(_, _, _, _, _, _)
ValueToFsInner(f, p, x, u, o) ==
  IF x.t = "arr" /\ ~AllNumbers(x.a)
  THEN LET r1 == CreateDirAll(f, p)
       IN IF ~r1.ok THEN [ok |-> FALSE, fs |-> r1.fs, u |-> u]
          ELSE LET r2 == RemovePrefixed(r1.fs, p, ELEM_PREFIX, o)
               IN IF ~r2.ok THEN [ok |-> FALSE, fs |-> r2.fs, u |-> u]
                  ELSE LET r3 == WriteFile(r2.fs, PathJoin(p, TYPE_NAME), ARRAY_TAG)
                       IN IF ~r3.ok THEN [ok |-> FALSE, fs |-> r3.fs, u |-> u]
                          ELSE EncodeItems(r3.fs, p, x.a, 0, u, o)
  ELSE IF x.t = "obj"
  THEN LET r1 == CreateDirAll(f, p)
       IN IF ~r1.ok THEN [ok |-> FALSE, fs |-> r1.fs, u |-> u]
          ELSE LET r2 == RemovePrefixed(r1.fs, p, KEY_PREFIX, o)
               IN IF ~r2.ok THEN [ok |-> FALSE, fs |-> r2.fs, u |-> u]
                  ELSE LET r3 == WriteFile(r2.fs, PathJoin(p, TYPE_NAME), DICT_TAG)
                       IN IF ~r3.ok THEN [ok |-> FALSE, fs |-> r3.fs, u |-> u]
                          ELSE EncodeMembers(r3.fs, p, x.o, SortedKeys(DOMAIN x.o), u, o)
  ELSE LET r == WriteFile(f, p, ToJson(x))
       IN [ok |-> r.ok, fs |-> r.fs, u |-> u]

\* for (n, item) in array.iter().enumerate(), from item n + 1 on
EncodeItems(f, p, a, n, u, o) ==
  IF n >= Len(a) THEN [ok |-> TRUE, fs |-> f, u |-> u]
  ELSE LET r == ValueToFsInner(f, PathJoin(p, ElemName(n, u)), a[n + 1], u + 1, o)
       IN IF r.ok THEN EncodeItems(r.fs, p, a, n + 1, r.u, o) ELSE r

\* for (name, item) in object.iter(), over the keys ks still to write
EncodeMembers(f, p, m, ks, u, o) ==
  IF Len(ks) = 0 THEN [ok |-> TRUE, fs |-> f, u |-> u]
  ELSE LET r == ValueToFsInner(f, PathJoin(p, KeyName(ks[1])), m[ks[1]], u, o)
       IN IF r.ok THEN EncodeMembers(r.fs, p, m, Tail(ks), r.u, o) ELSE r

\* value_to_fs for a serde_json::Value (to_value is then the identity)
ValueToFs(f, p, x, u, o) == ValueToFsInner(f, p, x, u, o)

(***************************************************************************)
(* fs_to_value_inner (db_fmt.rs 105-156).  Results are [err, v]: err is    *)
(* "ok" or the FsToValueError variant.                                     *)
(***************************************************************************)
DecErr(e) == [err |-> e, v |-> Null]

\* str::parse::<usize>: an optional '+' and at least one digit; [ok, n]
ParseUsize(s) ==
  LET ds == IF Len(s) > 0 /\ s[1] = 43 THEN Tail(s) ELSE s
  IN IF Len(ds) > 0 /\ \A i \in 1..Len(ds) : IsDigit(ds[i])
     THEN [ok |-> TRUE, n |-> DigitsVal(ds, 0)]
     ELSE [ok |-> FALSE, n |-> 0]

\* the filter_map of the array arm: names elem_<index>_<rest> with a
\* parsable index become [index, name]; the others are dropped
RECURSIVE IndexedNames(_)
IndexedNames(names) ==
  IF Len(names) = 0 THEN <<>>
  ELSE LET s == names[1]
           rest == Drop(s, 5)
           at == Find(rest, UNDERSCORE)
           idx == ParseUsize(SubSeq(rest, 1, at))
       IN IF at >= 0 /\ idx.ok
          THEN <<[index |-> idx.n, name |-> s]>> \o IndexedNames(Tail(names))
          ELSE IndexedNames(Tail(names))

\* names.sort_by_key(index): a stable sort
RECURSIVE InsertByIndex(_, _)
InsertByIndex(sorted, x) ==
  IF Len(sorted) = 0 THEN <<x>>
  ELSE IF sorted[Len(sorted)].index <= x.index THEN Append(sorted, x)
  ELSE Append(InsertByIndex(SubSeq(sorted, 1, Len(sorted) - 1), x), sorted[Len(sorted)])

\* a sort that leaves the listing order as it is
SortByIndex_None(xs, acc) == acc \o xs

RECURSIVE SortByIndex(_, _)
SortByIndex(xs, acc) ==
  IF Len(xs) = 0 THEN acc ELSE SortByIndex(Tail(xs), InsertByIndex(acc, xs[1]))

\* the map of the dict arm, collected into a Result: the first name whose
\* base64 or UTF-8 decoding fails is the error; [err, ns]
RECURSIVE DecodedNames(_, _)
DecodedNames(names, acc) ==
  IF Len(names) = 0 THEN [err |-> "ok", ns |-> acc]
  ELSE LET b == B64Decode(Drop(names[1], 4))
       IN IF ~b.ok THEN [err |-> "Base64", ns |-> <<>>]
          ELSE IF ~IsUtf8(b.b) THEN [err |-> "StringDecode", ns |-> <<>>]
          ELSE DecodedNames(Tail(names), Append(acc, [file |-> names[1], key |-> b.b]))

\* a match that takes any readable marker other than "array" for "dict"
DirArm_Lenient(dir_type) ==
  IF dir_type.ok /\ dir_type.s = ARRAY_TAG THEN "array"
  ELSE IF dir_type.ok THEN "dict"
  ELSE "NoDirType"

\* the arm of the match that takes a directory, by the result of reading .type
DirArm(dir_type) ==
  IF dir_type.ok /\ dir_type.s = ARRAY_TAG THEN "array"
  ELSE IF dir_type.ok /\ dir_type.s = DICT_TAG THEN "dict"
  ELSE IF dir_type.ok THEN "BadDirType"
  ELSE "NoDirType"

\* read_dir(path)?.flatten().flat_map(|v| v.file_name().to_str()..): the
\* entry names that are UTF-8, in listing order
Utf8Names(f, p, o) == SelectSeq(ReadDirNames(f, p, o), IsUtf8)

\* the names vector of the array arm after the sort: [index, name]
ArrayChildren(f, p, o) ==
  LET IsElem(s) == StartsWith(s, ELEM_PREFIX)
  IN SortByIndex(IndexedNames(SelectSeq(Utf8Names(f, p, o), IsElem)), <<>>)

RECURSIVE FsToValueInner(_, _, _)
RECURSIVE DecodeItems(_, _, _, _, _)
RECURSIVE DecodeMembers(_, _, _, _, _)
FsToValueInner(f, p, o) ==
  LET stat == Lookup(f, p)
      arm == DirArm(ReadToString(f, PathJoin(p, TYPE_NAME)))
      IsKey(s) == StartsWith(s, KEY_PREFIX)
  IN IF stat.k = "none" THEN DecErr("IO")
     ELSE IF stat.k # "dir"
       THEN IF ~stat.r THEN DecErr("IO")
            ELSE LET j == FromJson(stat.c)
                 IN IF j.ok THEN [err |-> "ok", v |-> j.v] ELSE DecErr("JSON")
     ELSE IF arm = "array"
       THEN DecodeItems(f, p, ArrayChildren(f, p, o), <<>>, o)
     ELSE IF arm = "dict"
       THEN LET names == DecodedNames(SelectSeq(Utf8Names(f, p, o), IsKey), <<>>)
            IN IF names.err # "ok" THEN DecErr(names.err)
               ELSE DecodeMembers(f, p, names.ns, EmptyMap, o)
     ELSE DecErr(arm)

\* a collect that drops the elements that fail to decode
DecodeItems_Skip(f, p, names, acc, o) ==
  IF Len(names) = 0 THEN [err |-> "ok", v |-> Arr(acc)]
  ELSE LET r == FsToValueInner(f, PathJoin(p, names[1].name), o)
       IN IF r.err # "ok" THEN DecodeItems(f, p, Tail(names), acc, o)
          ELSE DecodeItems(f, p, Tail(names), Append(acc, r.v), o)

\* names.into_iter().map(fs_to_value).collect::<Result<_, _>>()
DecodeItems(f, p, names, acc, o) ==
  IF Len(names) = 0 THEN [err |-> "ok", v |-> Arr(acc)]
  ELSE LET r == FsToValueInner(f, PathJoin(p, names[1].name), o)
       IN IF r.err # "ok" THEN r
          ELSE DecodeItems(f, p, Tail(names), Append(acc, r.v), o)

\* names.into_iter().map(|(path, name)| fs_to_value(path).map(..)).collect()
DecodeMembers(f, p, names, acc, o) ==
  IF Len(names) = 0 THEN [err |-> "ok", v |-> Obj(acc)]
  ELSE LET r == FsToValueInner(f, PathJoin(p, names[1].file), o)
       IN IF r.err # "ok" THEN r
          ELSE DecodeMembers(f, p, Tail(names), MapPut(acc, names[1].key, r.v), o)

\* fs_to_value::<Value> (from_value is then the identity)
FsToValue(f, p, o) == FsToValueInner(f, p, o)

(***************************************************************************)
(* Db and Feed (app/mod.rs), their Serialize / Deserialize forms, and the  *)
(* mutations the Gui sends.  An rss::Channel is represented by its title;  *)
(* an f64 by the Float number it serializes to.                            *)
(***************************************************************************)
\* "feeds", "feed", "read_articles", "title" as bytes
FEEDS == <<102, 101, 101, 100, 115>>
FEED == <<102, 101, 101, 100>>
READ_ARTICLES == <<114, 101, 97, 100, 95, 97, 114, 116, 105, 99, 108, 101, 115>>
TITLE == <<116, 105, 116, 108, 101>>

Channel(title) == [title |-> title]
Feed(feed, read_articles) == [feed |-> feed, read_articles |-> read_articles]
Db(feeds) == [feeds |-> feeds]
\* Db::default()
DbDefault == Db(EmptyMap)

\* serde_json::to_value(&db)
FeedToValue(feed) ==
  Obj(MapPut(MapPut(EmptyMap, FEED, Obj(MapPut(EmptyMap, TITLE, Str(feed.feed.title)))),
             READ_ARTICLES, Obj(feed.read_articles)))
DbToValue(d) == Obj(MapPut(EmptyMap, FEEDS, Obj([u \in DOMAIN d.feeds |-> FeedToValue(d.feeds[u])])))

\* serde_json::from_value::<Db>: fields by name, other members ignored, an
\* integer accepted for an f64; [ok, db]
IsObjWith(x, ks) == x.t = "obj" /\ ks \subseteq DOMAIN x.o
FeedFromValueOk(x) ==
  /\ IsObjWith(x, {FEED, READ_ARTICLES})
  /\ IsObjWith(x.o[FEED], {TITLE})
  /\ x.o[FEED].o[TITLE].t = "str"
  /\ x.o[READ_ARTICLES].t = "obj"
  /\ \A g \in DOMAIN x.o[READ_ARTICLES].o : x.o[READ_ARTICLES].o[g].t = "num"
FeedFromValue(x) ==
  Feed(Channel(x.o[FEED].o[TITLE].s),
       [g \in DOMAIN x.o[READ_ARTICLES].o |-> [x.o[READ_ARTICLES].o[g] EXCEPT !.f = TRUE]])
DbFromValue(x) ==
  IF /\ IsObjWith(x, {FEEDS})
     /\ x.o[FEEDS].t = "obj"
     /\ \A u \in DOMAIN x.o[FEEDS].o : FeedFromValueOk(x.o[FEEDS].o[u])
  THEN [ok |-> TRUE, db |-> Db([u \in DOMAIN x.o[FEEDS].o |-> FeedFromValue(x.o[FEEDS].o[u])])]
  ELSE [ok |-> FALSE, db |-> DbDefault]

\* Ok(serde_json::from_value(r?)?)
DbOfResult(r) ==
  IF r.err # "ok" THEN [err |-> r.err, db |-> DbDefault]
  ELSE IF ~DbFromValue(r.v).ok THEN [err |-> "JSON", db |-> DbDefault]
  ELSE [err |-> "ok", db |-> DbFromValue(r.v).db]

\* fs_to_value::<Db>(&path): [err, db]
FsToValueDb(f, p, o) ==
  CHOOSE d \in { DbOfResult(r) : r \in {FsToValueInner(f, p, o)} } : TRUE

\* value_to_fs(&path, &db)
ValueToFsDb(f, p, d, u, o) == ValueToFs(f, p, DbToValue(d), u, o)

\* a Mutation: a closure over what the Gui captured when it built it
InsertFeed(url, feed) ==
  [kind |-> "insert", url |-> url, feed |-> feed, guid |-> <<>>, val |-> Float(0, <<>>)]
MarkArticle(url, guid, val) ==
  [kind |-> "mark", url |-> url, feed |-> Feed(Channel(<<>>), EmptyMap), guid |-> guid, val |-> val]
Failing ==
  [kind |-> "fail", url |-> <<>>, feed |-> Feed(Channel(<<>>), EmptyMap), guid |-> <<>>, val |-> Float(0, <<>>)]

\* the closure a refresh job sends: |db, _| { db.feeds.insert(url, feed); Ok(()) }
RefreshFeed(url, feed) ==
  [kind |-> "refresh", url |-> url, feed |-> feed, guid |-> <<>>, val |-> Float(0, <<>>)]

\* mutation(&mut new_db, &toast): [ok, db]
RunMutation(m, d) ==
  IF m.kind = "fail" THEN [ok |-> FALSE, db |-> d]
  ELSE IF m.kind \in {"insert", "refresh"}
    THEN [ok |-> TRUE, db |-> Db(MapPut(d.feeds, m.url, m.feed))]
  ELSE IF m.url \in DOMAIN d.feeds
    THEN [ok |-> TRUE,
          db |-> Db([d.feeds EXCEPT ![m.url].read_articles = MapPut(@, m.guid, m.val)])]
  ELSE [ok |-> TRUE, db |-> d]

(***************************************************************************)
(* The codec under arbitrary call sequences: value_to_fs and fs_to_value   *)
(* at the store path, and edits of the store by others (the directory      *)
(* format is plain files, open to any program).                            *)
(***************************************************************************)
\* default_value = "./.winter2db"
StorePath == <<<<46, 119, 105, 110, 116, 101, 114, 50, 100, 98>>>>

MaxOps == 2
\* the arrangement numbers read_dir may follow in a run
Orders == {0, 1, 5}

\* keys: "a", "b", "/. \u{e9}", "???", "ab?", "ab?c"
KeyA == <<97>>
KeyB == <<98>>
KeyOdd == <<47, 46, 32, 195, 169>>
KeyQ3 == <<63, 63, 63>>
KeyAbQ == <<97, 98, 63>>
KeyAbQc == <<97, 98, 63, 99>>

Map1(k, x) == MapPut(EmptyMap, k, x)
Map2(k1, x1, k2, x2) == MapPut(Map1(k1, x1), k2, x2)

\* {"a": [1,2,3], "b": "x"}
ValExample == Obj(Map2(KeyA, Arr(<<Int64(1), Int64(2), Int64(3)>>), KeyB, Str(<<120>>)))
\* [null, [true, -2], {"b": 1.0}]
ValMixed == Arr(<<Null, Arr(<<Bool(TRUE), Int64(-2)>>), Obj(Map1(KeyB, Float(1, <<>>)))>>)
\* {"a": {"b": [], "a": {}}}
ValNested == Obj(Map1(KeyA, Obj(Map2(KeyB, Arr(<<>>), KeyA, Obj(EmptyMap)))))

\* the values handed to value_to_fs
Pool ==
  { Null, Str(<<97, 34, 92, 10>>),
    Obj(EmptyMap), Arr(<<Int64(1), Int64(2), Int64(3)>>),
    ValMixed, ValNested, ValExample,
    Arr(<<Str(<<121>>), Null>>),
    Obj(Map1(KeyOdd, Str(<<122>>))),
    Obj(Map1(KeyQ3, Null)),
    Obj(Map2(KeyAbQ, Obj(EmptyMap), KeyAbQc, Obj(EmptyMap))) }

\* every path at or below p that names a node
RECURSIVE NodePaths(_, _)
NodePaths(node, p) ==
  IF node.k # "dir" THEN {p}
  ELSE {p} \cup UNION { NodePaths(node.e[i].x, Append(p, node.e[i].n)) : i \in 1..Len(node.e) }

StoreNode == Lookup(fs, StorePath)
StorePaths == IF StoreNode.k = "none" THEN {} ELSE NodePaths(StoreNode, StorePath)
StoreDirs == {p \in StorePaths : Lookup(fs, p).k = "dir"}
StoreLeaves == {p \in StorePaths : Lookup(fs, p).k = "file" /\ p[Len(p)] # TYPE_NAME}

\* marker contents others may leave: "oops", "array\n", one byte 0xFF
MarkerEdits == { <<111, 111, 112, 115>>, ARRAY_TAG \o <<10>>, <<255>> }

\* entries others may add: elem_7_zz, elem_+0_a, elem_x, key_@@, key_gA==,
\* key_ + 0xFF, stray; each a file holding 7
StrayNames ==
  { ELEM_PREFIX \o <<55, 95, 122, 122>>, ELEM_PREFIX \o <<43, 48, 95, 97>>,
    ELEM_PREFIX \o <<120>>, KEY_PREFIX \o <<64, 64>>, KEY_PREFIX \o <<103, 65, 61, 61>>,
    KEY_PREFIX \o <<255>>, <<115, 116, 114, 97, 121>> }

\* malformed leaf text: {
BadLeaf == <<123>>

\* no codec call on record
NoCalls ==
  /\ cop = "none"
  /\ cencs = <<>>
  /\ cclean = TRUE
  /\ cerr = "ok"
  /\ cval = Null
  /\ cpre = NoNode
  /\ nops = 0

\* no pipeline: mk_app has not been called
NoPipeline ==
  /\ mutations = <<>>
  /\ new_state = <<>>
  /\ queued = 0
  /\ db = DbDefault
  /\ gui_db = DbDefault
  /\ pc = "none"
  /\ batch = <<>>
  /\ new_db = <<>>
  /\ ret = <<>>
  /\ loaded = <<>>
  /\ nsent = 0
  /\ enq = <<>>
  /\ applied = <<>>
  /\ snapshots = <<>>
  /\ enc = <<>>
  /\ open = FALSE
  /\ tasks = {}
  /\ submitted = <<>>
  /\ jobs = {}
  /\ njobs = 0
  /\ toasts = <<>>
  /\ edits = 0

CodecInit ==
  /\ fs = Dir(<<>>)
  /\ uuid = 0
  /\ ord \in Orders
  /\ NoCalls
  /\ NoPipeline

\* value_to_fs(&path, &x)
CEncode(x) ==
  /\ nops < MaxOps
  /\ \E r \in {ValueToFs(fs, StorePath, x, uuid, ord)} :
        /\ fs' = r.fs
        /\ uuid' = r.u
        /\ cencs' = Append(cencs, [v |-> x, ok |-> r.ok])
  /\ cop' = "enc"
  /\ cerr' = "ok"
  /\ cval' = Null
  /\ cpre' = fs
  /\ nops' = nops + 1
  /\ UNCHANGED <<ord, cclean, pvars, xvars>>

\* fs_to_value::<Value>(&path)
CDecode ==
  /\ cop # "dec"
  /\ \E r \in {FsToValue(fs, StorePath, ord)} :
        /\ cerr' = r.err
        /\ cval' = r.v
  /\ cpre' = NoNode
  /\ cop' = "dec"
  /\ UNCHANGED <<fs, uuid, ord, cencs, cclean, nops, pvars, xvars>>

\* one edit by others of a store that is as value_to_fs left it
Edited(f) ==
  /\ nops < MaxOps
  /\ cclean
  /\ fs' = f
  /\ cop' = "ext"
  /\ cclean' = FALSE
  /\ cerr' = "ok"
  /\ cval' = Null
  /\ cpre' = NoNode
  /\ nops' = nops + 1
  /\ UNCHANGED <<uuid, ord, cencs, pvars, xvars>>

\* another program rewrites a marker file
ExtSetMarker ==
  \E d \in StoreDirs : \E c \in MarkerEdits :
    Edited(SetAt(fs, Append(d, TYPE_NAME), File(c)))

\* another program deletes a marker file
ExtRemoveMarker ==
  \E d \in StoreDirs :
    /\ Lookup(fs, Append(d, TYPE_NAME)).k = "file"
    /\ Edited(DelAt(fs, Append(d, TYPE_NAME)))

\* another program adds an entry to a directory of the store
ExtAddChild ==
  \E d \in StoreDirs : \E name \in StrayNames :
    /\ Lookup(fs, Append(d, name)).k = "none"
    /\ Edited(SetAt(fs, Append(d, name), File(<<55>>)))

\* another program overwrites a leaf with text that is not JSON
ExtCorruptLeaf ==
  \E l \in StoreLeaves : Edited(SetAt(fs, l, File(BadLeaf)))

\* another program takes the read permission of a leaf away
ExtLockLeaf ==
  \E l \in StoreLeaves :
    /\ Lookup(fs, l).r
    /\ Edited(SetAt(fs, l, [Lookup(fs, l) EXCEPT !.r = FALSE]))

\* the store path is removed altogether
ExtRemoveStore ==
  /\ nops < MaxOps
  /\ StoreNode.k # "none"
  /\ fs' = DelAt(fs, StorePath)
  /\ cop' = "ext"
  /\ cencs' = <<>>
  /\ cclean' = TRUE
  /\ cerr' = "ok"
  /\ cval' = Null
  /\ cpre' = NoNode
  /\ nops' = nops + 1
  /\ UNCHANGED <<uuid, ord, pvars, xvars>>

CodecNext ==
  \/ \E x \in Pool : CEncode(x)
  \/ CDecode
  \/ ExtSetMarker
  \/ ExtRemoveMarker
  \/ ExtAddChild
  \/ ExtCorruptLeaf
  \/ ExtLockLeaf
  \/ ExtRemoveStore

CodecSpec == CodecInit /\ [][CodecNext]_vars

(***************************************************************************)
(* The pipeline: mk_app, the tasks that send mutations, Backend::work and  *)
(* the Gui taking snapshots.  Backend::work is one task; its steps are the *)
(* stretches between its await points, with the loop over the batch taken  *)
(* one mutation at a time (the counter is read by the Gui in between).     *)
(***************************************************************************)
\* recv_many(&mut mutations, 128)
BatchLimit == 128
\* mpsc::channel(1024)
ChannelCapacity == 1024
\* mutations sent in a run
MaxMutations == 2

\* a feed URL; the guid of an article; "???", which the Gui uses for an
\* article without a guid
FeedUrl == <<117>>
Guid1 == <<103>>
NoGuid == <<63, 63, 63>>

ChannelA == Channel(<<65>>)
ChannelB == Channel(<<66>>)
Unread == Float(0, <<>>)
Read == Float(1, <<>>)

\* the mutations the Gui builds: commit of a new feed, the r / x button and
\* "< Done" of an article; and a mutation that returns Err
Mutations ==
  { InsertFeed(FeedUrl, Feed(ChannelA, EmptyMap)),
    InsertFeed(FeedUrl, Feed(ChannelB, EmptyMap)),
    MarkArticle(FeedUrl, Guid1, Read),
    MarkArticle(FeedUrl, NoGuid, Read),
    MarkArticle(FeedUrl, NoGuid, Unread),
    Failing }

\* the store path when the program starts: absent, or as an earlier run left it
EarlierDb == Db(MapPut(EmptyMap, FeedUrl, Feed(ChannelA, EmptyMap)))
InitialStores(o) ==
  { Dir(<<>>), ValueToFsDb(Dir(<<>>), StorePath, EarlierDb, 0, o).fs }

\* mk_app(path, !path.is_dir()): [ok, fs, db]
MkApp(f, o) ==
  IF ~IsDir(f, StorePath)
  THEN CHOOSE app \in { [ok |-> w.ok, fs |-> w.fs, db |-> DbDefault] :
                        w \in {ValueToFsDb(f, StorePath, DbDefault, 0, o)} } : TRUE
  ELSE CHOOSE app \in { [ok |-> r.err = "ok", fs |-> f, db |-> r.db] :
                        r \in {FsToValueDb(f, StorePath, o)} } : TRUE

Init ==
  /\ ord \in Orders
  /\ uuid = 0
  /\ NoCalls
  /\ \E f \in InitialStores(ord) : \E app \in {MkApp(f, ord)} :
          /\ app.ok
          /\ fs = app.fs
          /\ db = app.db
          /\ gui_db = app.db
          /\ snapshots = <<app.db>>
  /\ mutations = <<>>
  /\ new_state = <<>>
  /\ queued = 0
  /\ pc = "recv"
  /\ batch = <<>>
  /\ new_db = <<>>
  /\ ret = <<>>
  /\ loaded = <<>>
  /\ nsent = 0
  /\ enq = <<>>
  /\ applied = <<>>
  /\ enc = <<>>
  /\ open = TRUE
  /\ tasks = {}
  /\ submitted = <<>>
  /\ jobs = {}
  /\ njobs = 0
  /\ toasts = <<>>
  /\ edits = 0

\* mutations.send(mutation).await in a task the Gui spawned; the receiver
\* is dropped with the Backend when work returns, and send then fails
Send(m) ==
  /\ Len(enq) < MaxMutations
  /\ open
  /\ pc # "returned"
  /\ Len(mutations) < ChannelCapacity
  /\ mutations' = Append(mutations, m)
  /\ enq' = Append(enq, m)
  /\ UNCHANGED <<svars, hvars, new_state, queued, db, gui_db, pc, batch, new_db, ret,
                 loaded, nsent, applied, snapshots, xvars>>

Min(a, b) == IF a < b THEN a ELSE b

\* every Sender of the request channel has been dropped: the Gui's, and the
\* clones held by its tasks and jobs
Closed == ~open /\ tasks = {} /\ jobs = {}

\* self.queued.fetch_add(n, Ordering::Relaxed)
FetchAdd_Lost(q, n) == q
FetchAdd(q, n) == q + n

\* recv_many(&mut mutations, 128).await; queued.fetch_add(mutations.len()).
\* recv_many waits while the channel is empty and open; it returns what the
\* channel holds, up to the limit, and 0 when the channel is empty and closed.
Recv ==
  /\ pc = "recv"
  /\ Len(mutations) > 0 \/ Closed
  /\ LET n == Min(Len(mutations), BatchLimit)
     IN /\ batch' = SubSeq(mutations, 1, n)
        /\ mutations' = SubSeq(mutations, n + 1, Len(mutations))
        /\ queued' = FetchAdd(queued, n)
  /\ pc' = "load"
  /\ new_db' = <<>>
  /\ loaded' = <<>>
  /\ nsent' = 0
  /\ UNCHANGED <<svars, hvars, new_state, db, gui_db, ret, enq, applied, snapshots,
                 xvars>>

\* let mut new_db: Db = spawn_blocking(move || fs_to_value(&path)).await??
LoadTree(f, p, o, snapshot) == FsToValueDb(f, p, o)

\* spawn_blocking(fs_to_value(&path)).await??
Load ==
  /\ pc = "load"
  /\ \E r \in {LoadTree(fs, StorePath, ord, db)} :
        IF r.err = "ok"
        THEN /\ new_db' = <<r.db>>
             /\ loaded' = <<r.db>>
             /\ pc' = IF Len(batch) = 0 THEN "persist" ELSE "apply"
             /\ ret' = ret
        ELSE /\ pc' = "returned"
             /\ ret' = <<"fs_to_value", r.err>>
             /\ UNCHANGED <<new_db, loaded>>
  /\ UNCHANGED <<svars, hvars, mutations, new_state, queued, db, gui_db, batch,
                 nsent, enq, applied, snapshots, xvars>>

\* one turn of the loop: mutation(&mut new_db, &self.toast)?; queued.fetch_sub(1)
\* a mutation's error that is dropped instead of returned
Failed_Ignored(r) == FALSE

\* mutation(&mut new_db, &self.toast)?: the Err arm of `?`
Failed(r) == ~r.ok

Apply ==
  /\ pc = "apply"
  /\ Len(batch) > 0
  /\ \E r \in {RunMutation(Head(batch), new_db[1])} :
        IF ~Failed(r)
        THEN /\ new_db' = <<r.db>>
             /\ queued' = queued - 1
             /\ batch' = Tail(batch)
             /\ applied' = Append(applied, Head(batch))
             /\ pc' = IF Len(batch) = 1 THEN "persist" ELSE "apply"
             /\ ret' = ret
        ELSE /\ pc' = "returned"
             /\ ret' = <<"mutation", "Err">>
             /\ UNCHANGED <<new_db, queued, batch, applied>>
  /\ UNCHANGED <<svars, hvars, mutations, new_state, db, gui_db, loaded, nsent, enq,
                 snapshots, xvars>>

\* a spawn_blocking that is not awaited: work goes on to the comparison
AfterSpawn_NoAwait == "compare"

\* spawn_blocking(..).await: work waits for the blocking thread
AfterSpawn == "persisting"

\* spawn_blocking({ let new_db = new_db.clone(); move || value_to_fs(&path, &new_db) })
PersistStart ==
  /\ pc = "persist"
  /\ enc' = Append(enc, new_db[1])
  /\ pc' = AfterSpawn
  /\ UNCHANGED <<svars, hvars, mutations, new_state, queued, db, gui_db, batch, new_db,
                 ret, loaded, nsent, enq, applied, snapshots,
                 open, tasks, submitted, jobs, njobs, toasts, edits>>

\* value_to_fs(&path, &new_db) on the blocking thread, and .await?? in work
Persist ==
  /\ pc = "persisting"
  /\ Len(enc) > 0
  /\ \E w \in {ValueToFsDb(fs, StorePath, Head(enc), uuid, ord)} :
        /\ fs' = w.fs
        /\ uuid' = w.u
        /\ IF w.ok
           THEN pc' = "compare" /\ ret' = ret
           ELSE pc' = "returned" /\ ret' = <<"value_to_fs", "IO">>
  /\ enc' = Tail(enc)
  /\ UNCHANGED <<ord, hvars, mutations, new_state, queued, db, gui_db, batch, new_db,
                 loaded, nsent, enq, applied, snapshots,
                 open, tasks, submitted, jobs, njobs, toasts, edits>>

\* a comparison that never finds the tree unchanged
Unchanged_Never(a, b) == FALSE

\* new_db == *self.db
Unchanged(a, b) == a = b

\* if new_db == *self.db { continue }
Skip ==
  /\ pc = "compare"
  /\ Unchanged(new_db[1], db)
  /\ pc' = "recv"
  /\ UNCHANGED <<svars, hvars, mutations, new_state, queued, db, gui_db, batch, new_db,
                 ret, loaded, nsent, enq, applied, snapshots, xvars>>

\* self.db = Arc::new(new_db); self.new_db.send(self.db.clone()).await?
\* The send waits for room while the Gui holds the receiver, and fails once
\* the Gui has dropped it.
Publish ==
  /\ pc = "compare"
  /\ ~Unchanged(new_db[1], db)
  /\ db' = new_db[1]
  /\ IF open
     THEN /\ Len(new_state) < ChannelCapacity
          /\ new_state' = Append(new_state, new_db[1])
          /\ snapshots' = Append(snapshots, new_db[1])
          /\ nsent' = nsent + 1
          /\ pc' = "recv"
          /\ ret' = ret
     ELSE /\ pc' = "returned"
          /\ ret' = <<"send", "SendError">>
          /\ UNCHANGED <<new_state, snapshots, nsent>>
  /\ UNCHANGED <<svars, hvars, mutations, queued, gui_db, batch, new_db, loaded,
                 enq, applied, xvars>>

\* Gui::update: while let Ok(new_db) = self.new_state.try_recv() { self.db = new_db }
GuiUpdate ==
  /\ open
  /\ Len(new_state) > 0
  /\ gui_db' = new_state[Len(new_state)]
  /\ new_state' = <<>>
  /\ UNCHANGED <<svars, hvars, mutations, queued, db, pc, batch, new_db, ret, loaded,
                 nsent, enq, applied, snapshots, xvars>>

Next ==
  \/ \E m \in Mutations : Send(m)
  \/ Recv
  \/ Load
  \/ Apply
  \/ PersistStart
  \/ Persist
  \/ Skip
  \/ Publish
  \/ GuiUpdate

Spec == Init /\ [][Next]_vars

\* the positions of Backend::work
Positions == {"recv", "load", "apply", "persist", "persisting", "compare", "returned"}

\* Backend::work, or the blocking call it awaits, can take a step: it is
\* inside a cycle, with room in the snapshot channel when it is about to
\* send, or it waits in recv_many and the request channel holds a mutation
\* or is closed
Ready ==
  \/ pc \in {"load", "apply", "persist", "persisting"}
  \/ pc = "compare" /\ (~open \/ Len(new_state) < ChannelCapacity)
  \/ pc = "recv" /\ (Len(mutations) > 0 \/ Closed)

\* a step of Backend::work that takes it to another position
Move == Ready /\ pc' \in Positions

\* Backend::work is a task of the multi-thread runtime, its blocking calls run
\* on the blocking pool, and eframe calls Gui::update for every frame: while
\* work can take a step it does not stay where it is for ever, and the Gui
\* takes the snapshots sent to it. Nothing makes a producer send.
Fairness ==
  /\ WF_pc(Move)
  /\ WF_vars(GuiUpdate)

\* what the producers send in the fair runs: a feed, the r button on an
\* article with a guid and on one without, and a mutation that fails
Sent ==
  { m \in Mutations :
      \/ m.kind = "fail"
      \/ m.kind = "insert" /\ m.feed.feed = ChannelA
      \/ m.kind = "mark" /\ m.val = Read }

FairNext ==
  \/ \E m \in Sent : Send(m)
  \/ Recv
  \/ Load
  \/ Apply
  \/ PersistStart
  \/ Persist
  \/ Skip
  \/ Publish
  \/ GuiUpdate

FairSpec == Init /\ [][FairNext]_vars /\ Fairness

----------------------------------------------------------------------------
\* value_to_fs over a store that holds entries of other programs

\* a file next to the store
Neighbour == <<110, 101, 120, 116>>

\* the entries others have added to the store's directory: all of StrayNames,
\* or those of them that are UTF-8
StraySets == { StrayNames, {n \in StrayNames : IsUtf8(n)} }

RECURSIVE AddFiles(_, _, _)
AddFiles(f, d, names) ==
  IF Len(names) = 0 THEN f
  ELSE AddFiles(SetAt(f, Append(d, names[1]), File(<<55>>)), d, Tail(names))

\* the values the store was encoded from before
Earlier == {ValExample, ValMixed}

\* a store encoded from x0 next to a neighbour file, to which others then
\* added the entries S: [fs, u]
FrameStore(x0, S, o) ==
  CHOOSE s \in { [fs |-> AddFiles(w.fs, StorePath, SortedKeys(S)), u |-> w.u] :
                 w \in {ValueToFs(Dir(<<[n |-> Neighbour, x |-> File(<<55>>)]>>),
                                  StorePath, x0, 0, o)} } : TRUE

FrameInit ==
  /\ ord \in Orders
  /\ \E x0 \in Earlier : \E S \in StraySets : \E s \in {FrameStore(x0, S, ord)} :
        /\ fs = s.fs
        /\ uuid = s.u
        /\ cencs = <<[v |-> x0, ok |-> TRUE]>>
  /\ cop = "ext"
  /\ cclean = FALSE
  /\ cerr = "ok"
  /\ cval = Null
  /\ cpre = NoNode
  /\ nops = MaxOps - 1
  /\ NoPipeline

FrameNext == \E x \in Pool : CEncode(x)

FrameSpec == FrameInit /\ [][FrameNext]_vars

----------------------------------------------------------------------------
\* Gui::refresh and its jobs

\* number of refresh jobs started in a run
MaxJobs == 2

\* what a refresh job may download for a feed
Fetched == {ChannelA, ChannelB}

\* Gui::refresh: one job per feed of the Gui's snapshot, each with a clone of
\* the feed's read_articles taken now
Refresh ==
  /\ open
  /\ njobs + Cardinality(DOMAIN gui_db.feeds) <= MaxJobs
  /\ jobs' = jobs \cup { [n |-> njobs + 1, url |-> u,
                          read_articles |-> gui_db.feeds[u].read_articles] :
                        u \in DOMAIN gui_db.feeds }
  /\ njobs' = njobs + Cardinality(DOMAIN gui_db.feeds)
  /\ UNCHANGED <<svars, hvars, pvars, enc, open, tasks, submitted, toasts, edits>>

\* a failing job that goes on with an empty channel after its toast
JobFailure_Default(j) ==
  [toasts |-> << <<"Error", j.url>> >>,
   mutations |-> << InsertFeed(j.url, Feed(Channel(<<>>), j.read_articles)) >>]

\* the Err arms of reqwest::get, response.bytes and rss::Channel::read_from:
\* send_toast.send((ToastLevel::Error, ..)).await.unwrap(); return
JobFailure(j) ==
  [toasts |-> << <<"Error", j.url>> >>, mutations |-> <<>>]

\* a job fails to download, read or parse its feed
JobFail(j) ==
  /\ j \in jobs
  /\ open
  /\ \E out \in {JobFailure(j)} :
        /\ toasts' = toasts \o out.toasts
        /\ mutations' = mutations \o out.mutations
        /\ enq' = enq \o out.mutations
  /\ jobs' = jobs \ {j}
  /\ UNCHANGED <<svars, hvars, new_state, queued, db, gui_db, pc, batch, new_db, ret,
                 loaded, nsent, applied, snapshots,
                 enc, open, tasks, submitted, njobs, edits>>

\* a job has its feed: send_mutation.send(|db, _| db.feeds.insert(url, feed))
\* with feed = Feed { feed, read_articles }
JobDone(j, channel) ==
  /\ j \in jobs
  /\ Len(enq) < MaxMutations
  /\ pc # "returned"
  /\ Len(mutations) < ChannelCapacity
  /\ \E m \in {RefreshFeed(j.url, Feed(channel, j.read_articles))} :
        /\ mutations' = Append(mutations, m)
        /\ enq' = Append(enq, m)
  /\ jobs' = jobs \ {j}
  /\ UNCHANGED <<svars, hvars, new_state, queued, db, gui_db, pc, batch, new_db, ret,
                 loaded, nsent, applied, snapshots,
                 enc, open, tasks, submitted, njobs, toasts, edits>>

\* what the user does while jobs run: the r button on an article of the feed
Clicks == { m \in Mutations : m.kind = "mark" /\ m.guid = Guid1 }

RefreshNext ==
  \/ \E m \in Clicks : Send(m)
  \/ Recv
  \/ Load
  \/ Apply
  \/ PersistStart
  \/ Persist
  \/ Skip
  \/ Publish
  \/ GuiUpdate
  \/ Refresh
  \/ \E j \in jobs : JobFail(j)
  \/ \E j \in jobs : \E channel \in Fetched : JobDone(j, channel)

RefreshSpec == Init /\ [][RefreshNext]_vars

----------------------------------------------------------------------------
\* Gui::send_mutation and the tasks it spawns

\* Gui::send_mutation(mutation): let mutations = self.mutations.clone();
\* tokio::spawn(async move { mutations.send(mutation).await.unwrap() })
Submit(m) ==
  /\ open
  /\ Len(submitted) < MaxMutations
  /\ tasks' = tasks \cup {[n |-> Len(submitted) + 1, m |-> m]}
  /\ submitted' = Append(submitted, m)
  /\ UNCHANGED <<svars, hvars, pvars, enc, open, jobs, njobs, toasts, edits>>

\* a worker thread of the runtime runs a spawned task:
\* mutations.send(mutation).await
TaskSend(t) ==
  /\ t \in tasks
  /\ pc # "returned"
  /\ Len(mutations) < ChannelCapacity
  /\ mutations' = Append(mutations, t.m)
  /\ enq' = Append(enq, t.m)
  /\ tasks' = tasks \ {t}
  /\ UNCHANGED <<svars, hvars, new_state, queued, db, gui_db, pc, batch, new_db, ret,
                 loaded, nsent, applied, snapshots,
                 enc, open, submitted, jobs, njobs, toasts, edits>>

SpawnNext ==
  \/ \E m \in Mutations : Submit(m)
  \/ \E t \in tasks : TaskSend(t)
  \/ Recv
  \/ Load
  \/ Apply
  \/ PersistStart
  \/ Persist
  \/ Skip
  \/ Publish
  \/ GuiUpdate

SpawnSpec == Init /\ [][SpawnNext]_vars

----------------------------------------------------------------------------
\* A feed whose url has a query

\* http://h/ab?
QueryUrl == <<104, 116, 116, 112, 58, 47, 47, 104, 47, 97, 98, 63>>

\* the new feed editor's commit for that url:
\* self.send_mutation(|state, _| { state.feeds.insert(url, feed); Ok(()) })
QueryFeed == InsertFeed(QueryUrl, Feed(ChannelA, EmptyMap))

QueryNext ==
  \/ Next
  \/ Send(QueryFeed)

QuerySpec == Init /\ [][QueryNext]_vars

----------------------------------------------------------------------------
\* Another program writes the store

\* number of writes by other programs in a run
MaxEdits == 1

\* the feed another program adds
OutsideUrl == <<118>>

\* the trees another program may leave in a store that holds d: d with one
\* more feed, d with that feed's channel replaced, or no feeds at all
OutsideTrees(d) ==
  { Db(MapPut(d.feeds, OutsideUrl, Feed(ChannelA, EmptyMap))),
    Db(MapPut(d.feeds, OutsideUrl, Feed(ChannelB, EmptyMap))),
    DbDefault }

\* another program rewrites the store while Backend::work waits in recv_many
OutsideWrite ==
  /\ pc = "recv"
  /\ edits < MaxEdits
  /\ \E r \in {FsToValueDb(fs, StorePath, ord)} :
        /\ r.err = "ok"
        /\ \E d \in OutsideTrees(r.db) \ {r.db} :
              \E w \in {ValueToFsDb(fs, StorePath, d, uuid, ord)} :
                 /\ w.ok
                 /\ fs' = w.fs
                 /\ uuid' = w.u
  /\ edits' = edits + 1
  /\ UNCHANGED <<ord, hvars, pvars, enc, open, tasks, submitted, jobs, njobs, toasts>>

EditNext ==
  \/ Next
  \/ OutsideWrite

EditSpec == Init /\ [][EditNext]_vars

----------------------------------------------------------------------------
\* The window is closed

\* eframe::run_native drops the Gui when the window is closed: the Gui's
\* sender of mutations and its receiver of snapshots, with the snapshots it
\* had not taken, are gone; Backend::work runs on until main returns
GuiClose ==
  /\ open
  /\ open' = FALSE
  /\ new_state' = <<>>
  /\ UNCHANGED <<svars, hvars, mutations, queued, db, gui_db, pc, batch, new_db, ret,
                 loaded, nsent, enq, applied, snapshots,
                 enc, tasks, submitted, jobs, njobs, toasts, edits>>

CloseNext ==
  \/ Next
  \/ GuiClose

CloseSpec == Init /\ [][CloseNext]_vars

(***************************************************************************)
(* Properties of the codec, checked under CodecSpec                        *)
(***************************************************************************)
IsContainer(x) == x.t = "obj" \/ (x.t = "arr" /\ ~AllNumbers(x.a))

SameContainerKind(x, y) ==
  \/ x.t = "obj" /\ y.t = "obj"
  \/ x.t = "arr" /\ y.t = "arr" /\ ~AllNumbers(x.a) /\ ~AllNumbers(y.a)

LastEnc == cencs[Len(cencs)]

\* the store path holds what one value_to_fs left at a path that did not exist
FreshlyEncoded == cclean /\ Len(cencs) = 1

\* the names of the entries of the directory at p that start with prefix
PrefixedNames(f, p, prefix) ==
  LET e == Lookup(f, p).e
  IN {e[i].n : i \in {j \in 1..Len(e) : StartsWith(e[j].n, prefix)}}

\* no key below x has a '/' in its base64 text
RECURSIVE SafeKeys(_)
SafeKeys(x) ==
  IF x.t = "obj"
  THEN \A k \in DOMAIN x.o : Find(B64Encode(k), SLASH) = -1 /\ SafeKeys(x.o[k])
  ELSE IF x.t = "arr" THEN \A i \in 1..Len(x.a) : SafeKeys(x.a[i])
  ELSE TRUE

\* What does hold of the round trip: a value none of whose keys has a '/'
\* in its base64 text, encoded at an absent path or over a container of its
\* own kind, decodes to itself.
RoundTripSafeKeys ==
  (/\ cop = "dec" /\ cclean /\ Len(cencs) >= 1
   /\ SafeKeys(LastEnc.v)
   /\ \A i \in 1..Len(cencs) : SafeKeys(cencs[i].v)
   /\ \A i \in 1..(Len(cencs) - 1) : SameContainerKind(cencs[i].v, cencs[i + 1].v))
    => (LastEnc.ok /\ cerr = "ok" /\ cval = LastEnc.v)

\* C1 (as claimed): for every value of the listed shapes, value_to_fs at a
\* path that does not exist yet followed by fs_to_value succeeds and returns
\* a value equal to the one encoded.
C1_RoundTrip ==
  (cop = "dec" /\ FreshlyEncoded)
    => (cencs[1].ok /\ cerr = "ok" /\ cval = cencs[1].v)

\* C2 (as claimed): for every key of an encoded object, whatever its
\* characters, the child key_<base64 of the key> exists and decoding the
\* directory succeeds with an object that maps the same key bytes to the
\* same value.
C2_KeyFidelity ==
  (cop = "dec" /\ FreshlyEncoded /\ cencs[1].v.t = "obj")
    => \A k \in DOMAIN cencs[1].v.o :
         /\ cencs[1].ok
         /\ Lookup(fs, PathJoin(StorePath, KeyName(k))).k # "none"
         /\ cerr = "ok"
         /\ cval.t = "obj"
         /\ k \in DOMAIN cval.o
         /\ cval.o[k] = cencs[1].v.o[k]

\* C3 (as claimed): encoding v1 and then v2 of the same container kind at the
\* same path and decoding yields exactly v2, and the directory holds no child
\* beyond one per member of v2 (nothing of the first encode is left).
C3_Reencode ==
  (/\ cop = "dec" /\ cclean /\ Len(cencs) = 2
   /\ SameContainerKind(cencs[1].v, cencs[2].v))
    => /\ cerr = "ok"
       /\ cval = cencs[2].v
       /\ IF cencs[2].v.t = "obj"
          THEN Cardinality(PrefixedNames(fs, StorePath, KEY_PREFIX))
                 = Cardinality(DOMAIN cencs[2].v.o)
          ELSE Cardinality(PrefixedNames(fs, StorePath, ELEM_PREFIX))
                 = Len(cencs[2].v.a)

\* the directory at d is one whose marker reads "array"
IsArrayDir(d) ==
  /\ Lookup(fs, d).k = "dir"
  /\ DirArm(ReadToString(fs, PathJoin(d, TYPE_NAME))) = "array"

ArrayDirs == {d \in StoreDirs : IsArrayDir(d)}

\* the children the array arm takes at d, as a set of [index, name]
ArrayKids(d) ==
  LET kids == ArrayChildren(fs, d, 0)
  IN {kids[i] : i \in 1..Len(kids)}

\* no two children in S have the same index
UniqueIndices(S) == \A a \in S : \A b \in S : a.index = b.index => a = b

\* the children in S by rank: the i-th has exactly i - 1 smaller indices
ByRank(S) ==
  [i \in 1..Cardinality(S) |->
     CHOOSE a \in S : Cardinality({b \in S : b.index < a.index}) = i - 1]

RECURSIVE Factorial(_)
Factorial(n) == IF n <= 1 THEN 1 ELSE n * Factorial(n - 1)

\* the UTF-8 names in d that start with elem_, in some order
ElemNames(d) ==
  LET IsElem(s) == StartsWith(s, ELEM_PREFIX)
  IN SelectSeq(Utf8Names(fs, d, 0), IsElem)

\* the arrangement numbers that give every order of these names: whatever
\* the order in which d lists its entries, it lists these in one of them
Listings(d) == 0..(Factorial(Len(ElemNames(d))) - 1)

\* C4: decoding an array directory returns the elements in ascending order of
\* the index parsed from the child names, whatever the order in which the
\* directory lists them.  For every array directory of the store: under every
\* order of its elem_ names the children are taken in non-decreasing index order, and
\* with unique indices child i is the one with the i-th smallest index; the
\* decoded array then holds, in that order, what the children decode to.  An
\* array that was just encoded decodes in its encode order.
C4_OrderPreserved ==
  cop = "dec"
    => /\ \A d \in ArrayDirs :
            LET S == ArrayKids(d)
                unique == UniqueIndices(S)
                ranked == IF unique THEN ByRank(S) ELSE <<>>
                r == FsToValue(fs, d, ord)
            IN /\ \A o \in Listings(d) :
                    LET kids == SortByIndex(IndexedNames(Permute(ElemNames(d), o)), <<>>)
                    IN /\ \A i \in 1..(Len(kids) - 1) : kids[i].index <= kids[i + 1].index
                       /\ unique => kids = ranked
               /\ unique => ArrayChildren(fs, d, ord) = ranked
               /\ (r.err = "ok" /\ unique)
                    => /\ Len(r.v.a) = Cardinality(S)
                       /\ \A i \in 1..Len(r.v.a) :
                            r.v.a[i] = FsToValue(fs, PathJoin(d, ranked[i].name), ord).v
       /\ (cclean /\ Len(cencs) >= 1 /\ LastEnc.ok /\ LastEnc.v.t = "arr" /\ cerr = "ok")
            => cval.a = LastEnc.v.a

\* C4 witness: a decoded array directory of at least three children whose
\* indices are not contiguous, listed in an order that is not the index order.
C4_Witness ==
  /\ cop = "dec" /\ IsArrayDir(StorePath) /\ cerr = "ok"
  /\ UniqueIndices(ArrayKids(StorePath))
  /\ Cardinality(ArrayKids(StorePath)) >= 3
  /\ \E a \in ArrayKids(StorePath) : a.index = 7
  /\ LET IsElem(s) == StartsWith(s, ELEM_PREFIX)
         listed == IndexedNames(SelectSeq(Utf8Names(fs, StorePath, ord), IsElem))
     IN \E i \in 1..(Len(listed) - 1) : listed[i].index > listed[i + 1].index

\* C5 (as claimed): encoding an object gives a directory with marker dict and
\* exactly one child per member, named key_<base64 of the key>; a scalar or
\* all-number array member is a leaf file holding its JSON text, any other
\* member a directory with its own marker; the directory decodes to the object.
C5_Layout ==
  (cop = "enc" /\ FreshlyEncoded /\ cencs[1].v.t = "obj")
    => LET x == cencs[1].v
       IN /\ cencs[1].ok
          /\ StoreNode.k = "dir"
          /\ Lookup(fs, PathJoin(StorePath, TYPE_NAME)) = File(DICT_TAG)
          /\ {StoreNode.e[i].n : i \in 1..Len(StoreNode.e)} \ {TYPE_NAME}
               = {KeyName(k) : k \in DOMAIN x.o}
          /\ Len(StoreNode.e) = 1 + Cardinality(DOMAIN x.o)
          /\ \A k \in DOMAIN x.o :
               LET c == Lookup(fs, Append(StorePath, KeyName(k)))
               IN IF IsContainer(x.o[k])
                  THEN /\ c.k = "dir"
                       /\ Lookup(c, <<TYPE_NAME>>)
                            = File(IF x.o[k].t = "arr" THEN ARRAY_TAG ELSE DICT_TAG)
                  ELSE c = File(ToJson(x.o[k]))
          /\ FsToValue(fs, StorePath, ord) = [err |-> "ok", v |-> x]

\* What does hold of the layout: C5 for the objects all of whose keys have
\* no '/' in their base64 text.
LayoutSafeKeys ==
  (cop = "enc" /\ FreshlyEncoded /\ cencs[1].v.t = "obj" /\ SafeKeys(cencs[1].v))
    => C5_Layout

\* C6 (as claimed): decoding a directory returns NoDirType when the marker
\* file is absent and BadDirType when its content is anything other than
\* exactly array or dict.
C6_MarkerValidation ==
  cop = "dec"
    => \A d \in StoreDirs :
         LET m == Lookup(fs, Append(d, TYPE_NAME))
             r == FsToValue(fs, d, ord)
         IN /\ m.k = "none" => r.err = "NoDirType"
            /\ (m.k = "file" /\ m.c \notin {ARRAY_TAG, DICT_TAG}) => r.err = "BadDirType"

\* C6 (amended): decoding a directory returns NoDirType when the marker file
\* is absent or is not readable as UTF-8 text, and BadDirType when it is
\* UTF-8 text other than exactly array or dict; in neither case a value.  The
\* result of the call at the store path is the one of its directory.
C6_MarkerErrors ==
  cop = "dec"
    => /\ \A d \in StoreDirs :
            LET m == Lookup(fs, Append(d, TYPE_NAME))
                r == FsToValue(fs, d, ord)
            IN /\ (m.k = "none" \/ (m.k = "file" /\ ~IsUtf8(m.c)))
                    => r = DecErr("NoDirType")
               /\ (m.k = "file" /\ IsUtf8(m.c) /\ m.c \notin {ARRAY_TAG, DICT_TAG})
                    => r = DecErr("BadDirType")
       /\ StoreNode.k = "dir" => [err |-> cerr, v |-> cval] = FsToValue(fs, StorePath, ord)

\* C6 witness: decodes of a store whose top marker is missing, reads oops,
\* or is not UTF-8.
C6_Witness ==
  /\ cop = "dec" /\ StoreNode.k = "dir"
  /\ LET m == Lookup(fs, Append(StorePath, TYPE_NAME))
     IN \/ m.k = "none" /\ cerr = "NoDirType"
        \/ m.k = "file" /\ m.c = <<111, 111, 112, 115>> /\ cerr = "BadDirType"

\* the paths fs_to_value at p descends into: the elem_ children with an index
\* of an array directory, the key_ children of a dict directory
RECURSIVE Visited(_, _)
Visited(f, p) ==
  LET n == Lookup(f, p)
      arm == DirArm(ReadToString(f, PathJoin(p, TYPE_NAME)))
      IsElem(s) == StartsWith(s, ELEM_PREFIX)
      IsKey(s) == StartsWith(s, KEY_PREFIX)
      elems == IndexedNames(SelectSeq(Utf8Names(f, p, 0), IsElem))
      keys == SelectSeq(Utf8Names(f, p, 0), IsKey)
  IN IF n.k # "dir" THEN {p}
     ELSE IF arm = "array"
       THEN {p} \cup UNION {Visited(f, Append(p, elems[i].name)) : i \in 1..Len(elems)}
     ELSE IF arm = "dict"
       THEN {p} \cup UNION {Visited(f, Append(p, keys[i])) : i \in 1..Len(keys)}
     ELSE {p}

\* a key_ child of the dict directory at d whose name is not the base64 text
\* of a UTF-8 string
BadKeyIn(f, d) ==
  /\ Lookup(f, d).k = "dir"
  /\ DirArm(ReadToString(f, PathJoin(d, TYPE_NAME))) = "dict"
  /\ \E s \in PrefixedNames(f, d, KEY_PREFIX) :
       IsUtf8(s) /\ (~B64Decode(Drop(s, 4)).ok \/ ~IsUtf8(B64Decode(Drop(s, 4)).b))

\* the node at d cannot be decoded, whatever lies below it: a leaf that is
\* unreadable or is not JSON text, a directory whose marker is missing or
\* invalid, a dict directory with a key name that does not decode
FailsAt(f, d) ==
  LET n == Lookup(f, d)
  IN IF n.k = "file" THEN ~n.r \/ ~FromJson(n.c).ok
     ELSE \/ DirArm(ReadToString(f, PathJoin(d, TYPE_NAME))) \notin {"array", "dict"}
          \/ BadKeyIn(f, d)

RECURSIVE ApplyAll(_, _)
ApplyAll(ms, d) ==
  IF Len(ms) = 0 THEN d ELSE ApplyAll(Tail(ms), RunMutation(Head(ms), d).db)

\* every mutation sent has run and the cycle that ran the last of them is over
AllProcessed ==
  /\ pc \in {"recv", "returned"}
  /\ enq # <<>>
  /\ applied = enq

\* C8: mutations are applied in the order in which they were sent into the
\* request channel, within a batch and across batches; and once all of them
\* have been processed, the tree in the store and the tree last published are
\* the initial tree with the mutations applied in that order (so with M1 (set
\* k to A) sent before M2 (set k to B), both have k = B).
C8_MutationOrder ==
  /\ Len(applied) <= Len(enq)
  /\ applied = SubSeq(enq, 1, Len(applied))
  /\ AllProcessed =>
       \E want \in {ApplyAll(enq, snapshots[1])} :
         \E r \in {FsToValueDb(fs, StorePath, ord)} :
           r.err = "ok" /\ r.db = want /\ db = want

\* What does hold of the order: the same, for runs in which no key of the
\* resulting tree has a '/' in its base64 text.
OrderSafeKeys ==
  /\ Len(applied) <= Len(enq)
  /\ applied = SubSeq(enq, 1, Len(applied))
  /\ AllProcessed =>
       \E want \in {ApplyAll(enq, snapshots[1])} :
         SafeKeys(DbToValue(want)) =>
           \E r \in {FsToValueDb(fs, StorePath, ord)} :
             r.err = "ok" /\ r.db = want /\ db = want

\* a cycle has ended: work is back at recv_many, or has returned from value_to_fs
CycleOver ==
  \/ pc = "recv" /\ loaded # <<>>
  \/ pc = "returned" /\ ret[1] = "value_to_fs"

\* the fields of a Db: each feed's channel, each entry of its read_articles
FieldPaths(d) ==
  {<<u, 0, <<>>>> : u \in DOMAIN d.feeds}
    \cup UNION { {<<u, 1, g>> : g \in DOMAIN d.feeds[u].read_articles} : u \in DOMAIN d.feeds }
FieldAt(d, p) ==
  IF p \notin FieldPaths(d) THEN <<>>
  ELSE IF p[2] = 0 THEN <<d.feeds[p[1]].feed.title>>
  ELSE <<d.feeds[p[1]].read_articles[p[3]]>>
ChangedFields(a, b) ==
  {p \in FieldPaths(a) \cup FieldPaths(b) : FieldAt(a, p) # FieldAt(b, p)}

\* C9: a cycle whose batch leaves the tree as it was loaded sends no snapshot;
\* a cycle whose batch changes exactly one field of it sends exactly one
\* snapshot, which is the updated tree.
C9_ChangeSuppression ==
  CycleOver =>
    /\ new_db = loaded => nsent = 0
    /\ Cardinality(ChangedFields(loaded[1], new_db[1])) = 1
         => nsent = 1 /\ snapshots[Len(snapshots)] = new_db[1]

\* What does hold of change suppression: the same, for cycles whose tree has
\* no key with a '/' in its base64 text.
SuppressionSafeKeys ==
  (CycleOver /\ SafeKeys(DbToValue(new_db[1]))) =>
    /\ new_db = loaded => nsent = 0
    /\ new_db # loaded => nsent = 1 /\ snapshots[Len(snapshots)] = new_db[1]

\* C10: every snapshot sent differs from the snapshot sent before it, and the
\* first one sent differs from the state mk_app handed to the Gui.
C10_NoNoopSnapshot ==
  \A i \in 2..Len(snapshots) : snapshots[i] # snapshots[i - 1]

\* C10 witness: two snapshots have been sent, by two cycles, and the Gui has
\* taken them.
C10_Witness ==
  /\ Len(snapshots) = 3
  /\ new_state = <<>>
  /\ gui_db = snapshots[3]
  /\ pc = "recv"

\* Backend::work has returned the error of a mutation
MutationFailed == Len(ret) = 2 /\ ret[1] = "mutation"

\* the state in which work returns a mutation's error: the failing mutation
\* and those behind it in the batch have not run, no write of the store was
\* started in this cycle, the store still decodes to the tree the cycle
\* loaded, and the last snapshot is the one from before the batch
FailedBatchDropped ==
  MutationFailed =>
    /\ pc = "returned"
    /\ Len(batch) > 0
    /\ ~RunMutation(Head(batch), new_db[1]).ok
    /\ Len(applied) + Len(batch) + Len(mutations) = Len(enq)
    /\ enc = <<>>
    /\ nsent = 0
    /\ db = snapshots[Len(snapshots)]
    /\ \E r \in {FsToValueDb(fs, StorePath, ord)} : r.err = "ok" /\ r.db = loaded[1]

\* C11: when a mutation returns an error, work returns that error at once:
\* the rest of the batch is not applied, the batch's tree is neither written
\* to the store nor published, and no mutation is applied ever after.
C11_FatalMutationFailure ==
  /\ [](\A i \in 1..Len(applied) : applied[i].kind # "fail")
  /\ []FailedBatchDropped
  /\ [][pc = "returned" =>
          /\ pc' = "returned"
          /\ ret' = ret
          /\ applied' = applied
          /\ fs' = fs
          /\ snapshots' = snapshots]_vars

\* C11 witness: the first mutation of a batch of two has failed; the second
\* is still in the batch.
C11_Witness ==
  /\ MutationFailed
  /\ Len(batch) = 2
  /\ batch[1].kind = "fail"
  /\ batch[2].kind = "insert"

\* C12: at every moment at most one value_to_fs call on the store is in
\* progress, and once mk_app has returned the store is written by the
\* pipeline's own value_to_fs call only: a producer's step (a send into the
\* request channel, the Gui taking snapshots) leaves the store as it was.
C12_SingleWriter ==
  /\ [](Len(enc) <= 1)
  /\ [][fs' # fs => pc = "persisting" /\ Len(enc) = 1 /\ enc' = <<>>]_vars
  /\ [][Len(mutations') > Len(mutations) \/ Len(new_state') < Len(new_state) => fs' = fs]_vars

\* C12 witness: a value_to_fs call of the pipeline is in progress and a
\* producer has sent another mutation in the meantime.
C12_Witness ==
  /\ pc = "persisting"
  /\ Len(enc) = 1
  /\ Len(applied) = 1
  /\ Len(mutations) = 1

\* C13: a refresh job that fails to download, read or parse its feed sends
\* one notification of level Error and no mutation: the request channel, the
\* store, the pipeline's tree and the snapshots are as before, and the
\* pipeline is where it was and goes on.
C13_ProducerFailureIsolation ==
  [][Len(toasts') > Len(toasts) =>
       /\ Len(toasts') = Len(toasts) + 1
       /\ toasts'[Len(toasts')][1] = "Error"
       /\ SubSeq(toasts', 1, Len(toasts)) = toasts
       /\ Cardinality(jobs') = Cardinality(jobs) - 1
       /\ mutations' = mutations
       /\ enq' = enq
       /\ fs' = fs
       /\ db' = db
       /\ snapshots' = snapshots
       /\ new_state' = new_state
       /\ pc' = pc
       /\ ret' = ret]_vars

\* C13 witness: a job has failed and sent its notification while a batch was
\* being applied; the pipeline has gone on and finished the cycle.
C13_Witness ==
  /\ Len(toasts) = 1
  /\ toasts[1] = <<"Error", FeedUrl>>
  /\ jobs = {}
  /\ pc = "recv"
  /\ Len(applied) = 2

\* the urls that the mutations of this model write to
MutatedUrls == { m.url : m \in Mutations }

\* the cycle's value_to_fs call has ended, well or with an error
Persisted ==
  \/ pc = "compare"
  \/ pc = "returned" /\ Len(ret) = 2 /\ ret[1] = "value_to_fs"

\* every feed that the cycle loaded and that no mutation writes to is in the
\* tree r decoded from the store, as it was loaded
Carried(r) ==
  /\ r.err = "ok"
  /\ \A u \in DOMAIN loaded[1].feeds \ MutatedUrls :
        /\ u \in DOMAIN r.db.feeds
        /\ r.db.feeds[u] = loaded[1].feeds[u]

\* C14: the tree a cycle hands to its first mutation is the decode of the
\* store at that moment, whatever the last snapshot was, and what the cycle
\* loaded is carried into what it persists: once the cycle's write of the
\* store has ended, the store decodes to a tree in which every feed that was
\* loaded and that no mutation writes to is as it was loaded. So what another
\* program wrote between two cycles is seen by the next cycle and persisted.
C14_GroundTruthReload ==
  /\ pc \in {"apply", "persist", "persisting", "compare"} => Len(loaded) = 1
  /\ Persisted => \E r \in {FsToValueDb(fs, StorePath, ord)} : Carried(r)

\* the part of C14 that the code keeps: every cycle starts from the decode
\* of the store, and a cycle whose write succeeds leaves a store that decodes
\* to the cycle's tree, with what was loaded and not written to carried over
ReloadFromStore ==
  /\ [][pc = "load" /\ pc' \in {"apply", "persist"} =>
          \E r \in {FsToValueDb(fs, StorePath, ord)} :
             r.err = "ok" /\ new_db' = <<r.db>>]_vars
  /\ [](pc = "compare" =>
          \E r \in {FsToValueDb(fs, StorePath, ord)} :
             r.db = new_db[1] /\ Carried(r))

\* C15: a cycle starts only once at least one mutation has been received:
\* the batch that recv_many hands to a cycle holds at least 1 and at most
\* 128 mutations, whatever the state of the request channel, closed included.
C15_Batching ==
  pc = "load" => Len(batch) >= 1 /\ Len(batch) <= BatchLimit

\* the part of C15 that the code keeps: while a sender of the request channel
\* lives, no cycle starts with an empty batch, and no batch exceeds the limit
BatchingWhileOpen ==
  /\ [][pc = "recv" /\ pc' = "load" /\ ~Closed => Len(batch') >= 1]_vars
  /\ [](Len(batch) <= BatchLimit)

\* Backend::work is inside a cycle: between recv_many and the end of the
\* cycle's last step
InCycle == pc \in {"load", "apply", "persist", "persisting", "compare"}

\* C16: at every point of a cycle the counter `queued` is the number of
\* mutations of the current batch that have not completed yet; it is never
\* below zero; and it is 0 whenever work waits in recv_many.
C16_InFlightCounter ==
  /\ InCycle => queued = Len(batch)
  /\ queued >= 0
  /\ pc = "recv" => queued = 0

\* C16 witness: of a batch of two mutations one has completed and one has
\* not: the counter is 1.
C16_Witness ==
  /\ pc = "apply"
  /\ Len(batch) = 1
  /\ Len(applied) = 1
  /\ Len(enq) = 2
  /\ Len(snapshots) = 1
  /\ queued = 1

\* the names of the entries of the directory node d
EntryNames(d) == { d.e[i].n : i \in 1..Len(d.e) }

\* C17: value_to_fs of a non-numeric array at a directory removes only
\* entries whose names start with elem_, and of an object only entries whose
\* names start with key_: every other entry that was in the directory, but
\* the marker file, is there afterwards exactly as it was, and so is every
\* entry next to the store's path. This holds however the call ends.
C17_EncodeFrame ==
  (cop = "enc" /\ cpre.k = "dir" /\ Walk(cpre, StorePath).k = "dir"
     /\ (LastEnc.v.t = "obj" \/ (LastEnc.v.t = "arr" /\ ~AllNumbers(LastEnc.v.a))))
    => LET prefix == IF LastEnc.v.t = "obj" THEN KEY_PREFIX ELSE ELEM_PREFIX
           was == Walk(cpre, StorePath)
       IN /\ \A n \in EntryNames(was) :
                (~StartsWith(n, prefix) /\ n # TYPE_NAME)
                  => Walk(fs, Append(StorePath, n)) = Walk(was, <<n>>)
          /\ \A n \in EntryNames(cpre) :
                n # StorePath[1] => Walk(fs, <<n>>) = Walk(cpre, <<n>>)

\* C17 witness: an object has been encoded, with success, over a store that
\* held an array and entries of others: those starting with key_ are gone,
\* the array's elem_ children, elem_x and stray are still there.
C17_Witness ==
  /\ cop = "enc"
  /\ cpre.k = "dir"
  /\ LastEnc.ok
  /\ LastEnc.v = ValNested
  /\ cencs[1].v = ValMixed
  /\ LET was == EntryNames(Walk(cpre, StorePath))
         now == EntryNames(Walk(fs, StorePath))
     IN /\ KEY_PREFIX \o <<64, 64>> \in was \ now
        /\ ELEM_PREFIX \o <<120>> \in was \cap now
        /\ <<115, 116, 114, 97, 121>> \in was \cap now
        /\ \E n \in was \cap now : StartsWith(n, ELEM_PREFIX \o <<48, 95>>)

\* s is the beginning of q
IsPrefix(s, q) == Len(s) <= Len(q) /\ SubSeq(q, 1, Len(s)) = s

\* C18: mutations handed to Gui::send_mutation one after the other are
\* applied in the order of the calls: what has been applied so far is the
\* beginning of what was submitted, in the order of submission.
C18_SubmissionOrder ==
  IsPrefix(applied, submitted)

\* the part of C18 that the code keeps: mutations are applied in the order
\* in which the tasks sent them into the request channel
AppliedInSendOrder ==
  IsPrefix(applied, enq)

\* C19: when the mutation of a refresh job is applied, every read_articles
\* entry that the tree loaded from the store, with the mutations applied
\* before in the cycle, held for that feed just before is in the tree
\* afterwards, with its value: also when a mark-read for the feed was applied
\* after the job started.
C19_RefreshKeepsReadProgress ==
  [][(/\ pc = "apply"
      /\ Len(applied') = Len(applied) + 1
      /\ Head(batch).kind = "refresh"
      /\ Head(batch).url \in DOMAIN new_db[1].feeds)
       => LET u == Head(batch).url
              was == new_db[1].feeds[u].read_articles
              now == new_db'[1].feeds[u].read_articles
          IN \A g \in DOMAIN was : g \in DOMAIN now /\ now[g] = was[g]]_vars

\* the part of C19 that the code keeps: the feed a refresh mutation inserts
\* holds the read_articles that the Gui's snapshot held when the job started,
\* so nothing is lost when the tree still holds exactly those
RefreshKeepsSnapshotProgress ==
  [][(/\ pc = "apply"
      /\ Len(applied') = Len(applied) + 1
      /\ Head(batch).kind = "refresh"
      /\ Head(batch).url \in DOMAIN new_db[1].feeds
      /\ new_db[1].feeds[Head(batch).url].read_articles = Head(batch).feed.read_articles)
       => new_db'[1].feeds[Head(batch).url].read_articles
            = new_db[1].feeds[Head(batch).url].read_articles]_vars

\* C20: with no other program writing the store, whenever Backend::work
\* waits in recv_many the tree decoded from the store is the last snapshot
\* published, or the state mk_app returned when none has been published.
C20_StoreSnapshotAgreement ==
  pc = "recv" =>
    \E r \in {FsToValueDb(fs, StorePath, ord)} :
       /\ r.err = "ok"
       /\ r.db = snapshots[Len(snapshots)]

\* Backend::work has returned an error: a mutation or a codec call failed
Returned == pc = "returned"

\* the first n mutations sent have been applied, the cycle that applied the
\* last of them is over, the store decodes to the tree that cycle wrote, and
\* the counter is back at 0
Settled(n) ==
  /\ Len(applied) >= n
  /\ pc = "recv"
  /\ queued = 0
  /\ Len(new_db) = 1
  /\ \E r \in {FsToValueDb(fs, StorePath, ord)} : r.err = "ok" /\ r.db = new_db[1]

====
